---------------------------- MODULE Spec2Model ----------------------------
(***************************************************************************)
(* A model of huehoppy: the statistical colour transfer of                 *)
(* huehoppy/algorithms/reinhard/algorithm.py, the LUT synthesis of         *)
(* work/pylutek.py (create_multi_lut) and the pipeline of                  *)
(* huehoppy/core/pipeline.py.                                              *)
(*                                                                         *)
(* Numbers.  A NumPy float is modelled as an exact rational, or as one of  *)
(* the IEEE special values the code can produce: NaN, +/-Inf.  A finite    *)
(* value whose magnitude is beyond the range of the model's integers (the  *)
(* quotient of a nonzero number by the 1e-8 floor) is "huge": finite, of   *)
(* known sign, absorbed by a multiplication with 0 and saturated by clip.  *)
(* Rounding of float32/float64 arithmetic is not modelled.                 *)
(***************************************************************************)
EXTENDS Integers, Sequences, FiniteSets, TLC

(***************************************************************************)
(* Bounds of the model.                                                    *)
(***************************************************************************)
\* Number of lattice points per axis of the LUT (the code fixes size = 32).
LutSize == 2
\* Longest list of source-target pairs given to create_multi_lut.
MaxPairs == 2
\* Largest number of steps added to a pipeline.
MaxSteps == 3

(***************************************************************************)
(* Float arithmetic.                                                       *)
(***************************************************************************)
\* Largest magnitude of a numerator the model represents exactly.
MagLimit == 2^30

Abs(i) == IF i < 0 THEN -i ELSE i

Sign(i) == IF i < 0 THEN -1 ELSE IF i > 0 THEN 1 ELSE 0

RECURSIVE Gcd(_, _)
Gcd(a, b) == IF b = 0 THEN a ELSE Gcd(b, a % b)

NaN == [k |-> "nan", n |-> 0, d |-> 1]

Inf(s) == [k |-> "inf", n |-> s, d |-> 1]

Huge(s) == [k |-> "huge", n |-> s, d |-> 1]

\* The rational n/d (d # 0) in lowest terms with a positive denominator.
Fin(n, d) ==
    LET g == Gcd(Abs(n), Abs(d))
        s == IF d < 0 THEN -1 ELSE 1
    IN  [k |-> "fin", n |-> s * (n \div g), d |-> s * (d \div g)]

Num(i) == [k |-> "fin", n |-> i, d |-> 1]

IsFin(x) == x.k = "fin"

IsNaN(x) == x.k = "nan"

\* A value that is not a finite number: NaN or an infinity.
IsNonFinite(x) == x.k \in {"nan", "inf"}

IsZero(x) == x.k = "fin" /\ x.n = 0

\* The sign of a value that is not NaN.
SignOf(x) == IF x.k = "fin" THEN Sign(x.n) ELSE x.n

\* Whether the product of two integers is beyond MagLimit.
MulOverflows(a, b) == a # 0 /\ b # 0 /\ Abs(a) > MagLimit \div Abs(b)

\* The rational (a * b) / (c * e), or huge when the numerator is out of range.
FinProduct(a, b, c, e) ==
    LET g1 == Gcd(Abs(a), Abs(c))
        g2 == Gcd(Abs(a \div g1), Abs(e))
        a1 == (a \div g1) \div g2
        c1 == c \div g1
        e1 == e \div g2
        g3 == Gcd(Abs(b), Abs(c1))
        g4 == Gcd(Abs(b \div g3), Abs(e1))
        b1 == (b \div g3) \div g4
        c2 == c1 \div g3
        e2 == e1 \div g4
    IN  IF MulOverflows(a1, b1)
        THEN Huge(Sign(a1) * Sign(b1) * Sign(c2) * Sign(e2))
        ELSE Fin(a1 * b1, c2 * e2)

FNeg(x) ==
    CASE x.k = "fin" -> [x EXCEPT !.n = -x.n]
      [] x.k = "nan" -> x
      [] OTHER -> [x EXCEPT !.n = -x.n]

\* IEEE multiplication: 0 * Inf = NaN, 0 * finite = 0.
FMul(x, y) ==
    CASE IsNaN(x) \/ IsNaN(y) -> NaN
      [] IsFin(x) /\ IsFin(y) -> FinProduct(x.n, y.n, x.d, y.d)
      [] x.k = "inf" \/ y.k = "inf" ->
            IF IsZero(x) \/ IsZero(y) THEN NaN ELSE Inf(SignOf(x) * SignOf(y))
      [] OTHER ->
            IF IsZero(x) \/ IsZero(y) THEN Num(0) ELSE Huge(SignOf(x) * SignOf(y))

\* IEEE division as NumPy performs it: x/0 is +/-Inf, 0/0 is NaN (a warning,
\* no exception).
FDiv(x, y) ==
    CASE IsNaN(x) \/ IsNaN(y) -> NaN
      [] IsFin(x) /\ IsFin(y) ->
            IF y.n = 0
            THEN IF x.n = 0 THEN NaN ELSE Inf(Sign(x.n))
            ELSE FinProduct(x.n, y.d, x.d, y.n)
      [] x.k = "inf" /\ y.k = "inf" -> NaN
      [] x.k = "inf" -> Inf(x.n * (IF SignOf(y) < 0 THEN -1 ELSE 1))
      [] y.k = "inf" -> Num(0)
      [] x.k = "huge" /\ IsFin(y) ->
            IF y.n = 0 THEN Inf(x.n) ELSE Huge(x.n * Sign(y.n))

\* IEEE addition: Inf + (-Inf) = NaN.
FAdd(x, y) ==
    CASE IsNaN(x) \/ IsNaN(y) -> NaN
      [] IsFin(x) /\ IsFin(y) ->
            LET g == Gcd(x.d, y.d)
            IN  Fin(x.n * (y.d \div g) + y.n * (x.d \div g), x.d * (y.d \div g))
      [] x.k = "inf" /\ y.k = "inf" -> IF x.n = y.n THEN x ELSE NaN
      [] x.k = "inf" -> x
      [] y.k = "inf" -> y
      [] x.k = "huge" /\ IsFin(y) -> x
      [] IsFin(x) /\ y.k = "huge" -> y
      [] x.k = "huge" /\ y.k = "huge" /\ x.n = y.n -> x

FSub(x, y) == FAdd(x, FNeg(y))

RECURSIVE RatLess(_, _, _, _)
\* a/b < c/d for b, d > 0, by continued fractions (no products).
RatLess(a, b, c, d) ==
    LET qa == a \div b
        qc == c \div d
        ra == a % b
        rc == c % d
    IN  IF qa # qc THEN qa < qc
        ELSE IF rc = 0 THEN FALSE
        ELSE IF ra = 0 THEN TRUE
        ELSE RatLess(d, rc, b, ra)

\* x < y for values that are not NaN.
FLess(x, y) ==
    CASE IsFin(x) /\ IsFin(y) -> RatLess(x.n, x.d, y.n, y.d)
      [] IsFin(x) -> SignOf(y) > 0
      [] IsFin(y) -> SignOf(x) < 0
      [] x.k = y.k -> x.n < y.n
      [] x.k = "inf" -> x.n < 0
      [] OTHER -> y.n > 0

\* np.maximum and np.minimum propagate NaN.
FMax(x, y) ==
    IF IsNaN(x) \/ IsNaN(y) THEN NaN ELSE IF FLess(x, y) THEN y ELSE x

FMin(x, y) ==
    IF IsNaN(x) \/ IsNaN(y) THEN NaN ELSE IF FLess(y, x) THEN y ELSE x

\* np.clip(x, lo, hi) = minimum(maximum(x, lo), hi): NaN stays NaN.
FClip(x, lo, hi) == FMin(FMax(x, Num(lo)), Num(hi))

RECURSIVE ISqrtIn(_, _, _)
ISqrtIn(v, lo, hi) ==
    IF lo >= hi THEN lo
    ELSE LET mid == (lo + hi + 1) \div 2
         IN  IF mid * mid <= v THEN ISqrtIn(v, mid, hi) ELSE ISqrtIn(v, lo, mid - 1)

\* The integer square root of v, 0 <= v < 2^30.
ISqrt(v) == ISqrtIn(v, 0, 32767)

\* The square root of a finite value >= 0: exact when the value is the square
\* of a rational, and otherwise rounded down to a multiple of 1/d.
FSqrt(x) ==
    LET rn == ISqrt(x.n)
        rd == ISqrt(x.d)
    IN  IF rn * rn = x.n /\ rd * rd = x.d
        THEN Fin(rn, rd)
        ELSE Fin(ISqrt(x.n * x.d), x.d)

\* e^-k in millionths, k = 0 .. 14.
ExpTable ==
    <<1000000, 367879, 135335, 49787, 18316, 6738, 2479, 912, 335, 123, 45, 17,
      6, 2, 1>>

\* np.exp of a value <= 0 or NaN, to a resolution of 1e-6: the table entry of
\* the integer part, interpolated linearly in sixteenths over the fraction.
\* exp(-Inf) = 0, exp(NaN) = NaN; a result below 1e-6 underflows to 0.
FExp(x) ==
    CASE IsNaN(x) -> NaN
      [] x.k \in {"inf", "huge"} -> Num(0)
      [] IsFin(x) ->
            LET q  == (-x.n) \div x.d
                f  == (((-x.n) % x.d) * 16) \div x.d
                hi == IF q + 1 <= Len(ExpTable) THEN ExpTable[q + 1] ELSE 0
                lo == IF q + 2 <= Len(ExpTable) THEN ExpTable[q + 2] ELSE 0
            IN  Fin(hi - ((hi - lo) * f) \div 16, 1000000)

\* The cast of np.uint8(...) / astype(np.uint8) of a clipped value: truncation
\* toward zero.  The cast of NaN is undefined; u is the value the build yields.
ToUint8(x, u) ==
    CASE IsFin(x) -> x.n \div x.d
      [] IsNaN(x) -> u

(***************************************************************************)
(* Images and the colour-space conversion.  A pixel is a triple of 8-bit   *)
(* samples; an image is the sequence of its pixels (the statistics do not  *)
(* depend on the arrangement in rows and columns).                         *)
(***************************************************************************)
Channels == 1 .. 3

\* The triple of Op(c) over the three channels.
PerChannel(Op(_)) == << Op(1), Op(2), Op(3) >>

\* cv2's saturate_cast<uchar>.
Saturate(v) == IF v < 0 THEN 0 ELSE IF v > 255 THEN 255 ELSE v

\* cv2.cvtColor(_, cv2.COLOR_BGR2LAB) on one 8-bit pixel: a lightness channel
\* and two opponent chroma channels offset by 128.  The library's transform is
\* modelled by an integer opponent transform with the same interface: 8-bit
\* in and out, achromatic colours at chroma (128, 128), black at lightness 0
\* and white at lightness 255.
BGR2LAB(bgr) ==
    LET B == bgr[1]
        G == bgr[2]
        R == bgr[3]
    IN  << (R + 2 * G + B) \div 4,
           128 + (R - G) \div 2,
           128 + (R + G - 2 * B) \div 4 >>

\* cv2.cvtColor(_, cv2.COLOR_LAB2BGR) on one 8-bit pixel: the inverse
\* transform, saturated to 0 .. 255.
LAB2BGR(lab) ==
    LET A  == lab[2] - 128
        Bq == lab[3] - 128
        G  == lab[1] - (3 * A - 2 * Bq) \div 4
    IN  << Saturate(G + A - 2 * Bq), Saturate(G), Saturate(G + 2 * A) >>

\* (b, g, r) <-> (r, g, b): the [::-1] of the code.
Reversed(t) == << t[3], t[2], t[1] >>

\* An image converted pixel by pixel.
ImageBGR2LAB(img) == [i \in 1 .. Len(img) |-> BGR2LAB(img[i])]

ImageLAB2BGR(img) == [i \in 1 .. Len(img) |-> LAB2BGR(img[i])]

RECURSIVE SumOver(_, _, _)
\* The sum of f[i] over i = lo .. hi, as the code's float accumulation.
SumOver(f, lo, hi) == IF lo > hi THEN Num(0) ELSE FAdd(f[lo], SumOver(f, lo + 1, hi))

\* np.mean(lab_img, axis=(0, 1)): the mean of each channel over all pixels.
Mean(lab_img) ==
    PerChannel(LAMBDA c :
        FDiv(SumOver([i \in 1 .. Len(lab_img) |-> Num(lab_img[i][c])], 1, Len(lab_img)),
             Num(Len(lab_img))))

\* np.std(lab_img, axis=(0, 1)): the population standard deviation of each
\* channel (the squared deviations are divided by the number of pixels).
Std(lab_img) ==
    LET mean == Mean(lab_img)
    IN  PerChannel(LAMBDA c :
            FSqrt(FDiv(SumOver([i \in 1 .. Len(lab_img) |->
                                   LET dev == FSub(Num(lab_img[i][c]), mean[c])
                                   IN  FMul(dev, dev)],
                               1, Len(lab_img)),
                       Num(Len(lab_img)))))

\* calculate_stats: the pair (mean, std), unclamped.
calculate_stats(lab_img) == [mean |-> Mean(lab_img), std |-> Std(lab_img)]

(***************************************************************************)
(* The image files the runs read.                                          *)
(***************************************************************************)
Black == << 0, 0, 0 >>

White == << 255, 255, 255 >>

\* The image files on disk, by path.  "missing" cannot be read: cv2.imread
\* returns None for it, modelled as the empty sequence.
Disk ==
    [ black   |-> << Black >>,
      white   |-> << White >>,
      sunset  |-> << << 0, 0, 255 >>, << 255, 128, 0 >> >>,
      dusk    |-> << << 40, 40, 120 >>, << 200, 120, 60 >> >>,
      meadow  |-> << << 32, 200, 96 >>, << 224, 64, 160 >>, << 32, 200, 96 >>,
                     << 224, 64, 160 >> >>,
      missing |-> << >> ]

SourcePaths == {"black", "sunset", "dusk", "missing"}

TargetPaths == {"white", "meadow", "missing"}

\* The lists of (source, target) pairs a configuration may hold.
PairLists ==
    UNION {[1 .. n -> SourcePaths \X TargetPaths] : n \in 0 .. MaxPairs}

\* The LUT paths a configuration may hold: None, or a path.
NoPath == "None"

LutPaths == {NoPath, "out.cube"}

\* The values the undefined cast of NaN to uint8 may yield.
NanCasts == {0, 255}

(***************************************************************************)
(* work/pylutek.py: create_multi_lut.                                      *)
(***************************************************************************)
\* read_image succeeds on the path: cv2.imread did not return None.
Readable(path) == Len(Disk[path]) > 0

\* The index triples (b, g, r) of the lattice, as the loops nest them.
Cells == (0 .. LutSize - 1) \X (0 .. LutSize - 1) \X (0 .. LutSize - 1)

\* rgb = [r, g, b] * (255.0 / (size - 1)); bgr = rgb[::-1]; cast by np.uint8.
CellBGR(cell) == PerChannel(LAMBDA c : (cell[c] * 255) \div (LutSize - 1))

\* The lattice cell's colour in Lab.
CellLab(cell) == BGR2LAB(CellBGR(cell))

\* The statistics of a pair: of its source and of its target image in Lab.
PairStats(pair) ==
    [ source |-> calculate_stats(ImageBGR2LAB(Disk[pair[1]])),
      target |-> calculate_stats(ImageBGR2LAB(Disk[pair[2]])) ]

\* target_std / source_std, per channel: no floor is applied to source_std.
StdRatio(st) == PerChannel(LAMBDA c : FDiv(st.target.std[c], st.source.std[c]))

\* matched_lab = ((lab - source_mean) * (target_std / source_std)) + target_mean
MatchedLab(lab, st) ==
    LET ratio == StdRatio(st)
    IN  PerChannel(LAMBDA c :
            FAdd(FMul(FSub(Num(lab[c]), st.source.mean[c]), ratio[c]),
                 st.target.mean[c]))

\* np.clip(matched_lab, 0, 255)
ClippedLab(lab, st) ==
    LET matched_lab == MatchedLab(lab, st)
    IN  PerChannel(LAMBDA c : FClip(matched_lab[c], 0, 255))

\* cv2.cvtColor(np.uint8([[matched_lab]]), cv2.COLOR_LAB2BGR)[0, 0]
MatchedBGR(lab, st, u) ==
    LET matched_lab == ClippedLab(lab, st)
    IN  LAB2BGR(PerChannel(LAMBDA c : ToUint8(matched_lab[c], u)))

\* 4 * np.sum(source_std**2): the divisor of the similarity's exponent.
Bandwidth(st) ==
    FMul(Num(4),
         SumOver(PerChannel(LAMBDA c : FMul(st.source.std[c], st.source.std[c])), 1, 3))

\* np.exp(-np.sum((lab - source_mean) ** 2) / (4 * np.sum(source_std**2)))
Similarity(lab, st) ==
    FExp(FDiv(FNeg(SumOver(PerChannel(LAMBDA c :
                               LET dev == FSub(Num(lab[c]), st.source.mean[c])
                               IN  FMul(dev, dev)), 1, 3)),
              Bandwidth(st)))

RECURSIVE CellValues(_, _, _, _)
\* The values of the mapping at each of the cells `todo`, for a pair with
\* statistics st (the similarity only in the multi-pair branch).
CellValues(st, multi, u, todo) ==
    IF todo = {} THEN << >>
    ELSE LET cell == CHOOSE c \in todo : TRUE
             lab  == CellLab(cell)
         IN  (cell :> [ lab        |-> lab,
                        matched    |-> MatchedLab(lab, st),
                        rgb        |-> Reversed(MatchedBGR(lab, st, u)),
                        similarity |-> IF multi THEN Similarity(lab, st)
                                       ELSE Num(1) ])
                 @@ CellValues(st, multi, u, todo \ {cell})

\* What the loop body computes for one pair it has read: its statistics, the
\* divisors it uses and, per cell, the values of the mapping.
LoopBody(pair, multi, u) ==
    LET st == PairStats(pair)
    IN  [ stats     |-> st,
          ratio     |-> StdRatio(st),
          divisors  |-> {st.source.std[c] : c \in Channels}
                            \cup (IF multi THEN {Bandwidth(st)} ELSE {}),
          cells     |-> CellValues(st, multi, u, Cells) ]

\* The pairs whose two images can be read.
ReadablePairs ==
    {pair \in SourcePaths \X TargetPaths : Readable(pair[1]) /\ Readable(pair[2])}

RECURSIVE LoopBodies(_)
\* The loop body tabulated: it depends on the pair, the branch and the
\* outcome of the cast alone, not on the pairs before it.
LoopBodies(todo) ==
    IF todo = {} THEN << >>
    ELSE LET key == CHOOSE k \in todo : TRUE
         IN  (key :> LoopBody(key[1], key[2], key[3])) @@ LoopBodies(todo \ {key})

LoopBodyTable == LoopBodies(ReadablePairs \X BOOLEAN \X NanCasts)

PairTrace(pair, multi, u) == LoopBodyTable[<< pair, multi, u >>]

RECURSIVE PairTraces(_, _, _)
\* The loop bodies of the first n pairs of the list, in order.
PairTraces(pairs, n, u) ==
    IF n = 0 THEN << >>
    ELSE Append(PairTraces(pairs, n - 1, u), PairTrace(pairs[n], Len(pairs) # 1, u))

\* The single-pair branch: final_grid[b, g, r] = matched_bgr[::-1] / 255.0
SingleCell(cell, t) ==
    LET rgb == t.cells[cell].rgb
    IN  PerChannel(LAMBDA c : FDiv(Num(rgb[c]), Num(255)))

\* What one pair adds to a cell in the multi-pair branch:
\* final_grid[b, g, r] += matched_bgr[::-1] * similarity
WeightedColour(cell, t) ==
    LET at == t.cells[cell]
    IN  PerChannel(LAMBDA c : FMul(Num(at.rgb[c]), at.similarity))

RECURSIVE AccumulateColour(_, _, _)
\* final_grid[b, g, r] after the first n pairs, starting from np.zeros.
AccumulateColour(traces, n, cell) ==
    IF n = 0 THEN PerChannel(LAMBDA c : Num(0))
    ELSE LET before == AccumulateColour(traces, n - 1, cell)
             add    == WeightedColour(cell, traces[n])
         IN  PerChannel(LAMBDA c : FAdd(before[c], add[c]))

RECURSIVE AccumulateWeight(_, _, _)
\* weight_sum[b, g, r] after the first n pairs, starting from np.zeros.
AccumulateWeight(traces, n, cell) ==
    IF n = 0 THEN Num(0)
    ELSE FAdd(AccumulateWeight(traces, n - 1, cell),
              traces[n].cells[cell].similarity)

\* weight_sum = np.maximum(weight_sum, 1e-6)
WeightFloor == Fin(1, 1000000)

FlooredWeight(traces, cell) ==
    FMax(AccumulateWeight(traces, Len(traces), cell), WeightFloor)

\* A multi-pair branch that assigns each pair's weighted colour to the cell
\* instead of adding it: the last pair's contribution over the weight sum.
MultiCellLastPair(cell, traces) ==
    LET colour == IF Len(traces) = 0 THEN PerChannel(LAMBDA c : Num(0))
                  ELSE WeightedColour(cell, traces[Len(traces)])
        weight == FlooredWeight(traces, cell)
    IN  PerChannel(LAMBDA c : FDiv(colour[c], weight))

\* The multi-pair branch: final_grid = final_grid / weight_sum
MultiCell(cell, traces) ==
    LET colour == AccumulateColour(traces, Len(traces), cell)
        weight == FlooredWeight(traces, cell)
    IN  PerChannel(LAMBDA c : FDiv(colour[c], weight))

\* The grid before the final clip, from the loop bodies of all the pairs:
\* the single-pair branch for one pair, the multi-pair branch otherwise.
GridOfTraces(traces) ==
    IF Len(traces) = 1
    THEN [cell \in Cells |-> SingleCell(cell, traces[1])]
    ELSE [cell \in Cells |-> MultiCell(cell, traces)]

\* The grid before the final clip that a list of readable pairs gives.
RawGrid(pairs, u) == GridOfTraces(PairTraces(pairs, Len(pairs), u))

\* final_grid = np.clip(final_grid, 0, 1)
ClipGrid(grid) ==
    [cell \in Cells |->
        LET rgb == grid[cell] IN PerChannel(LAMBDA c : FClip(rgb[c], 0, 1))]

RECURSIVE ScaledQuotient(_, _, _)
RECURSIVE ScaledRemainder(_, _, _)
\* (n * 10^k) % d and (n * 10^k) \div d for 0 <= n, 0 < d, digit by digit.
ScaledRemainder(n, d, k) ==
    IF k = 0 THEN n % d ELSE (ScaledRemainder(n, d, k - 1) * 10) % d

ScaledQuotient(n, d, k) ==
    IF k = 0 THEN n \div d
    ELSE 10 * ScaledQuotient(n, d, k - 1)
         + (ScaledRemainder(n, d, k - 1) * 10) \div d

\* f"{x:.6f}" of a clipped grid value: the nearest multiple of 1e-6 (ties to
\* even), held in millionths; NaN prints as "nan".
Format6(x) ==
    IF IsNaN(x) THEN [nan |-> TRUE, micro |-> 0]
    ELSE LET q == ScaledQuotient(x.n, x.d, 6)
             r == ScaledRemainder(x.n, x.d, 6)
             up == 2 * r > x.d \/ (2 * r = x.d /\ q % 2 = 1)
         IN  [nan |-> FALSE, micro |-> IF up THEN q + 1 ELSE q]

\* The position of cell (b, g, r) among the data lines: b outermost, r innermost.
LineOf(cell) == cell[1] * LutSize * LutSize + cell[2] * LutSize + cell[3] + 1

\* The cell written on data line k.
CellOfLine(k) ==
    << (k - 1) \div (LutSize * LutSize),
       ((k - 1) \div LutSize) % LutSize,
       (k - 1) % LutSize >>

\* The LUT file the code writes from a grid: the header "LUT_3D_SIZE size" and
\* one line per cell with rgb[0], rgb[1], rgb[2].
LutFileOf(grid) ==
    [ exists |-> TRUE,
      size   |-> LutSize,
      lines  |-> [k \in 1 .. LutSize * LutSize * LutSize |->
                    LET rgb == grid[CellOfLine(k)]
                    IN  PerChannel(LAMBDA c : Format6(rgb[c]))] ]

NoFile == [exists |-> FALSE, size |-> 0, lines |-> << >>]

NoGrid == << >>

\* LutFileCodec.read as the specification states it: the header gives N, the
\* data lines are taken in (b, g, r)-major order, and the read fails with
\* MalformedLutFile when the number of data lines is not N^3 or a value is
\* not a number in [0, 1].
MalformedValue(token) == token.nan \/ token.micro < 0 \/ token.micro > 1000000

LutFileCodecRead(file) ==
    LET size  == file.size
        lines == file.lines
    IN  IF \/ ~file.exists
           \/ Len(lines) # size * size * size
           \/ \E k \in 1 .. Len(lines) : \E c \in Channels : MalformedValue(lines[k][c])
        THEN [error |-> "MalformedLutFile", size |-> 0, grid |-> NoGrid]
        ELSE [ error |-> "none",
               size  |-> size,
               grid  |-> [cell \in (0 .. size - 1) \X (0 .. size - 1) \X (0 .. size - 1) |->
                            LET line == lines[cell[1] * size * size + cell[2] * size
                                              + cell[3] + 1]
                            IN  PerChannel(LAMBDA c : Fin(line[c].micro, 1000000))] ]

\* The first pair of the list with an unreadable source or target, or 0.
FirstUnreadable(pairs) ==
    LET bad == {i \in 1 .. Len(pairs) : ~Readable(pairs[i][1]) \/ ~Readable(pairs[i][2])}
    IN  IF bad = {} THEN 0 ELSE CHOOSE i \in bad : \A j \in bad : i <= j

(***************************************************************************)
(* huehoppy/algorithms/reinhard/algorithm.py: Algorithm.transfer.          *)
(***************************************************************************)
\* source_std = np.maximum(source_std, 1e-8)
StdFloor == Fin(1, 100000000)

\* Statistics without the floor on the source's standard deviation.
TransferStatsUnfloored(source_lab, reference_lab) ==
    [ source    |-> [ mean |-> Mean(source_lab), std |-> Std(source_lab) ],
      reference |-> [ mean |-> Mean(reference_lab), std |-> Std(reference_lab) ] ]

\* The statistics transfer uses: those of the source (first argument), its
\* standard deviation floored, and those of the reference (second argument).
TransferStats(source_lab, reference_lab) ==
    LET source_std == Std(source_lab)
    IN  [ source    |-> [ mean |-> Mean(source_lab),
                          std  |-> PerChannel(LAMBDA c : FMax(source_std[c], StdFloor)) ],
          reference |-> [ mean |-> Mean(reference_lab),
                          std  |-> Std(reference_lab) ] ]

\* A loop that ignores preserve_luminance and remaps every channel.
RemappedChannelsAll(preserve_luminance) == {1, 2, 3}

\* The channels the loops assign: range(1, 3) with preserve_luminance,
\* range(3) without (0-based in the code, 1-based here).
RemappedChannels(preserve_luminance) ==
    IF preserve_luminance THEN {2, 3} ELSE {1, 2, 3}

\* (source_lab[:, :, i] - source_mean[i]) * (reference_std[i] / source_std[i])
\*     + reference_mean[i]
Remap(x, st, c) ==
    FAdd(FMul(FSub(Num(x), st.source.mean[c]),
              FDiv(st.reference.std[c], st.source.std[c])),
         st.reference.mean[c])

\* result_lab after the loop: a copy of source_lab with the remapped channels
\* assigned.
ResultLab(source_lab, st, preserve_luminance) ==
    [i \in 1 .. Len(source_lab) |->
        LET px == source_lab[i]
        IN  PerChannel(LAMBDA c :
                IF c \in RemappedChannels(preserve_luminance)
                THEN Remap(px[c], st, c)
                ELSE Num(px[c]))]

\* np.clip(result_lab, 0, 255)
ClipLabImage(result_lab) ==
    [i \in 1 .. Len(result_lab) |->
        LET px == result_lab[i] IN PerChannel(LAMBDA c : FClip(px[c], 0, 255))]

\* cv2.cvtColor(result_lab.astype(np.uint8), cv2.COLOR_LAB2BGR)
LabImageToBGR(result_lab, u) ==
    [i \in 1 .. Len(result_lab) |->
        LET px == result_lab[i]
        IN  LAB2BGR(PerChannel(LAMBDA c : ToUint8(px[c], u)))]

\* The images the transfer is called with.
Gray == << 128, 128, 128 >>

TransferImages ==
    { Disk.black, Disk.white, Disk.sunset, Disk.meadow,
      << Gray, Gray >>,
      << << 16, 32, 64 >>, << 240, 96, 48 >> >> }

(***************************************************************************)
(* huehoppy/core/pipeline.py: Pipeline, and the algorithms it is given.    *)
(* The pipeline treats images as opaque arrays: an image is modelled by    *)
(* what the code inspects of it (whether it is an ndarray, ndim, shape[2]) *)
(* and by where it comes from: a named input, or the output of an          *)
(* algorithm on a source and a target.                                     *)
(***************************************************************************)
Photo(name) ==
    [array |-> TRUE, ndim |-> 3, channels |-> 3, name |-> name, made_from |-> << >>]

\* A 2-D (single-channel) array: an ndarray the algorithms reject.
GrayscaleArray ==
    [array |-> TRUE, ndim |-> 2, channels |-> 0, name |-> "gray2d", made_from |-> << >>]

\* A value that is no ndarray (a path string).
NotAnArray ==
    [array |-> FALSE, ndim |-> 0, channels |-> 0, name |-> "path", made_from |-> << >>]

NoImage ==
    [array |-> FALSE, ndim |-> 0, channels |-> 0, name |-> "none", made_from |-> << >>]

\* A 4-channel (BGRA) array: shape[2] is 4.
FourChannelArray ==
    [array |-> TRUE, ndim |-> 3, channels |-> 4, name |-> "bgra", made_from |-> << >>]

PipelineInputs == {Photo("a"), Photo("b"), GrayscaleArray, FourChannelArray, NotAnArray}

\* The objects add_step may be given: instances of the two wrappers (classes
\* derived from core.base_algorithm.ColorTransferAlgorithm), an instance of
\* algorithms.reinhard.algorithm.Algorithm (derived from
\* core.base.ColorTransferAlgorithm, another class) and a string.
StepCandidates ==
    { [class |-> "Reinhard", base |-> "core.base_algorithm.ColorTransferAlgorithm"],
      [class |-> "ColortransLHM", base |-> "core.base_algorithm.ColorTransferAlgorithm"],
      [class |-> "Algorithm", base |-> "core.base.ColorTransferAlgorithm"],
      [class |-> "str", base |-> "object"] }

\* No object.
NoAlgorithm == [class |-> "NoneType", base |-> "object"]

\* isinstance(algorithm, ColorTransferAlgorithm), with the class pipeline.py
\* imports from huehoppy.core.base_algorithm.
IsPipelineAlgorithm(algorithm) ==
    algorithm.base = "core.base_algorithm.ColorTransferAlgorithm"

\* The checks both wrappers make before calling their library; "none" when
\* the images pass.
WrapperRejects(source_image, target_image) ==
    IF ~source_image.array \/ ~target_image.array THEN "TypeError"
    ELSE IF source_image.ndim # 3 \/ target_image.ndim # 3 THEN "ValueError"
    ELSE IF source_image.channels # 3 \/ target_image.channels # 3 THEN "ValueError"
    ELSE "none"

\* The image a library call returns: a new 3-channel array determined by the
\* algorithm and its two arguments.
LibraryOutput(class, source_image, target_image) ==
    [array |-> TRUE, ndim |-> 3, channels |-> 3, name |-> class,
     made_from |-> << source_image, target_image >>]

\* Reinhard.transfer(source_image, target_image)
ReinhardTransfer(source_image, target_image) ==
    LET error == WrapperRejects(source_image, target_image)
    IN  [ error |-> error,
          out   |-> IF error = "none"
                    THEN LibraryOutput("lab_transfer", source_image, target_image)
                    ELSE NoImage ]

\* ColortransLHM.transfer(source_image, target_image)
ColortransLHMTransfer(source_image, target_image) ==
    LET error == WrapperRejects(source_image, target_image)
    IN  [ error |-> error,
          out   |-> IF error = "none"
                    THEN LibraryOutput("transfer_lhm", source_image, target_image)
                    ELSE NoImage ]

\* algorithm_step.transfer(source_image, current_target_image)
StepTransfer(algorithm, source_image, target_image) ==
    IF algorithm.class = "Reinhard"
    THEN ReinhardTransfer(source_image, target_image)
    ELSE ColortransLHMTransfer(source_image, target_image)

RECURSIVE RunStepsUnchained(_, _, _, _)
\* A loop that never updates current_target_image: every step is handed the
\* initial target.
RunStepsUnchained(steps, source_image, current_target_image, i) ==
    IF i > Len(steps) THEN << >>
    ELSE LET r    == StepTransfer(steps[i], source_image, current_target_image)
             call == [ algorithm    |-> steps[i],
                       source_image |-> source_image,
                       target_image |-> current_target_image,
                       error        |-> r.error,
                       out          |-> r.out ]
         IN  IF r.error # "none" THEN << call >>
             ELSE << call >> \o RunStepsUnchained(steps, source_image,
                                                  current_target_image, i + 1)

RECURSIVE RunStepsContinuing(_, _, _, _)
\* A loop that logs a step's exception and goes on to the next step with the
\* image it had.
RunStepsContinuing(steps, source_image, current_target_image, i) ==
    IF i > Len(steps) THEN << >>
    ELSE LET r    == StepTransfer(steps[i], source_image, current_target_image)
             call == [ algorithm    |-> steps[i],
                       source_image |-> source_image,
                       target_image |-> current_target_image,
                       error        |-> r.error,
                       out          |-> r.out ]
             next == IF r.error # "none" THEN current_target_image ELSE r.out
         IN  << call >> \o RunStepsContinuing(steps, source_image, next, i + 1)

RECURSIVE RunSteps(_, _, _, _)
\* The loop of Pipeline.process over steps i .. len(steps): the calls made,
\* in order, each with its arguments and outcome; the loop stops at the
\* first step that raises.
RunSteps(steps, source_image, current_target_image, i) ==
    IF i > Len(steps) THEN << >>
    ELSE LET r    == StepTransfer(steps[i], source_image, current_target_image)
             call == [ algorithm    |-> steps[i],
                       source_image |-> source_image,
                       target_image |-> current_target_image,
                       error        |-> r.error,
                       out          |-> r.out ]
         IN  IF r.error # "none" THEN << call >>
             ELSE << call >> \o RunSteps(steps, source_image, r.out, i + 1)

(***************************************************************************)
(* huehoppy/core/manager.py: HueHoppyManager, with the algorithm package   *)
(* it discovers.  An array handed to the manager is modelled by its shape, *)
(* its dtype and its pixels in row-major order; the pixels of a 4-channel  *)
(* array are its (b, g, r) parts.                                          *)
(***************************************************************************)
NdArray(height, width, channels, pixels) ==
    [ ndim |-> 3, height |-> height, width |-> width, channels |-> channels,
      dtype |-> "uint8", pixels |-> pixels ]

\* A 2-D array of shape (1, 2): cv2 reads it as a single-channel image.
Matrix ==
    [ ndim |-> 2, height |-> 1, width |-> 2, channels |-> 1, dtype |-> "uint8",
      pixels |-> << >> ]

\* No array (nothing was returned).
NoArray ==
    [ ndim |-> 0, height |-> 0, width |-> 0, channels |-> 0, dtype |-> "none",
      pixels |-> << >> ]

\* The arrays the manager is called with: 3-channel images of four shapes,
\* a 4-channel image, an empty image and a 2-D array.
ManagerImages ==
    { NdArray(1, 1, 3, Disk.black),
      NdArray(1, 2, 3, Disk.sunset),
      NdArray(2, 1, 3, Disk.dusk),
      NdArray(2, 2, 3, Disk.meadow),
      NdArray(1, 1, 4, << << 16, 32, 64 >> >>),
      NdArray(0, 0, 3, << >>),
      Matrix }

\* cv2.cvtColor(img, cv2.COLOR_BGR2LAB) accepts a non-empty image of 3 or 4
\* channels (the fourth is dropped) and raises cv2.error for any other.
CvtColorAccepts(img) ==
    /\ img.ndim = 3
    /\ img.channels \in {3, 4}
    /\ img.height * img.width > 0

RECURSIVE PixelList(_, _)
\* The first n pixels of an image, as a list.
PixelList(img, n) == IF n = 0 THEN << >> ELSE Append(PixelList(img, n - 1), img[n])

\* A transfer whose result takes its height and width from the reference.
TransferOnArraysReferenceShape(source, reference, preserve_luminance, u) ==
    IF ~CvtColorAccepts(source) \/ ~CvtColorAccepts(reference)
    THEN [error |-> "cv2.error", out |-> NoArray]
    ELSE LET source_lab    == ImageBGR2LAB(source.pixels)
             reference_lab == ImageBGR2LAB(reference.pixels)
             st            == TransferStats(source_lab, reference_lab)
             result_lab    == ClipLabImage(ResultLab(source_lab, st, preserve_luminance))
             result        == LabImageToBGR(result_lab, u)
         IN  [ error |-> "none",
               out   |-> NdArray(reference.height, reference.width, 3,
                                 PixelList(result, Len(result))) ]

\* Algorithm.transfer(source, reference, preserve_luminance) on arrays: the
\* exception raised, or the array returned.  result_lab is a copy of
\* source_lab, so the result has the source's height and width, and the
\* three channels and dtype of cv2.cvtColor(uint8 array, COLOR_LAB2BGR).
TransferOnArrays(source, reference, preserve_luminance, u) ==
    IF ~CvtColorAccepts(source) \/ ~CvtColorAccepts(reference)
    THEN [error |-> "cv2.error", out |-> NoArray]
    ELSE LET source_lab    == ImageBGR2LAB(source.pixels)
             reference_lab == ImageBGR2LAB(reference.pixels)
             st            == TransferStats(source_lab, reference_lab)
             result_lab    == ClipLabImage(ResultLab(source_lab, st, preserve_luminance))
             result        == LabImageToBGR(result_lab, u)
         IN  [ error |-> "none",
               out   |-> NdArray(source.height, source.width, 3,
                                 PixelList(result, Len(result))) ]

RECURSIVE OutcomesByKeyword(_, _, _)
\* The transfer tabulated: its outcome depends on its arguments and on the
\* outcome of the cast alone.  The table is indexed by the source, then the
\* reference, then the keyword and the cast.
OutcomesByKeyword(source, reference, todo) ==
    IF todo = {} THEN << >>
    ELSE LET key == CHOOSE k \in todo : TRUE
         IN  (key :> TransferOnArrays(source, reference, key[1], key[2]))
                 @@ OutcomesByKeyword(source, reference, todo \ {key})

RECURSIVE OutcomesByReference(_, _)
OutcomesByReference(source, todo) ==
    IF todo = {} THEN << >>
    ELSE LET reference == CHOOSE k \in todo : TRUE
         IN  (reference :> OutcomesByKeyword(source, reference, BOOLEAN \X NanCasts))
                 @@ OutcomesByReference(source, todo \ {reference})

RECURSIVE OutcomesBySource(_)
OutcomesBySource(todo) ==
    IF todo = {} THEN << >>
    ELSE LET source == CHOOSE k \in todo : TRUE
         IN  (source :> OutcomesByReference(source, ManagerImages))
                 @@ OutcomesBySource(todo \ {source})

TransferTable == OutcomesBySource(ManagerImages)

\* algorithm.transfer(source, reference, preserve_luminance=...)
AlgorithmTransfer(source, reference, preserve_luminance, u) ==
    TransferTable[source][reference][<< preserve_luminance, u >>]

\* What the directory algorithms/<name> may be when the manager is built:
\* no package (no directory with an __init__.py), a package whose import
\* raises, a package without an algorithm class, a package whose class
\* reports its dependencies missing, or a package ready for use.
PackageStates == {"absent", "broken", "classless", "unavailable", "ready"}

\* The algorithm packages of the repository.
PackageNames == {"reinhard"}

\* The installations the manager may be built in.
Installs == [PackageNames -> PackageStates]

\* _discover_algorithms with _load_algorithm: the names registered.
DiscoverAlgorithms(install) ==
    {name \in PackageNames : install[name] = "ready"}

\* The names the manager is asked for.
AlgorithmNames == {"reinhard", "nonexistent"}

\* algorithm_class(): an instance of the registered class, which is
\* algorithms.reinhard.Algorithm, derived from core.base.ColorTransferAlgorithm.
AlgorithmInstance == [class |-> "Algorithm", base |-> "core.base.ColorTransferAlgorithm"]

\* Algorithm.get_metadata()
AlgorithmMetadata == [name |-> "Reinhard", version |-> "1.0.0"]

\* What a manager call returns, by kind.
NoResult == [kind |-> "none"]

ReturnedNone == [kind |-> "None"]

ReturnedInstance(instance) == [kind |-> "instance", instance |-> instance]

ReturnedMetadata(metadata) == [kind |-> "metadata", metadata |-> metadata]

ReturnedArray(array) == [kind |-> "array", array |-> array]

\* The caller's arrays after algorithm.transfer(source, reference): the
\* transfer writes into neither (cv2.cvtColor, astype, copy and np.clip each
\* return a new array, and the loops assign into result_lab, the copy).
ArraysAfterTransfer(source, reference) == [source |-> source, reference |-> reference]

\* No arrays were passed.
NoArrays == [source |-> NoArray, reference |-> NoArray]

\* The arguments of a call without images.
NoArgs == [source |-> NoArray, reference |-> NoArray, preserve_luminance |-> FALSE]

(***************************************************************************)
(* huehoppy/cli.py: the transfer command.                                  *)
(***************************************************************************)
\* The files a command line may name as source or reference: a path that
\* does not exist, a file cv2.imread cannot decode, and two images.
CliFiles == {"nowhere.jpg", "notes.txt", "sunset.jpg", "meadow.jpg"}

PathExists(path) == path # "nowhere.jpg"

\* cv2.imread(str(path)): a non-empty 3-channel uint8 array, or None
\* (NoArray) when the file is no image.
CliImread(path) ==
    IF path = "sunset.jpg" THEN NdArray(1, 2, 3, Disk.sunset)
    ELSE IF path = "meadow.jpg" THEN NdArray(2, 2, 3, Disk.meadow)
    ELSE NoArray

\* The output paths: one cv2.imwrite can write, one it cannot.
CliOutputs == {"out.jpg", "out.unknown"}

ImwriteSucceeds(path) == path = "out.jpg"

\* The command lines of `huehoppy transfer SOURCE REFERENCE OUTPUT -a NAME`.
CliArgvs ==
    [ source : CliFiles, reference : CliFiles, output : CliOutputs,
      algorithm : AlgorithmNames ]

NoArgv == [source |-> "", reference |-> "", output |-> "", algorithm |-> ""]

\* No installation (no command is running).
NoInstall == [name \in PackageNames |-> "none"]

\* The messages of the command, by their fixed text and what is filled in.
Message(text, algorithm, available) ==
    [text |-> text, algorithm |-> algorithm, available |-> available]

NoMessage == Message("", "", {})

\* click.Path(exists=True) rejects the argument: a usage error, exit status 2.
UsageMessage == Message("Invalid value: Path does not exist.", "", {})

\* load_image: cv2.imread returned None.
LoadMessage == Message("Failed to load image: {path}", "", {})

\* The check of the name against manager.get_available_algorithms().
NotAvailableMessage(algorithm, available) ==
    Message("Algorithm '{algorithm}' not available. Available: {available}",
            algorithm, available)

\* str(e) of an exception of manager.transfer.
TransferMessage(error) == Message(error, "", {})

\* save_image: cv2.imwrite did not write the file.
SaveMessage == Message("Failed to save image: {path}", "", {})

\* The outcome of the command: exit status, message, what it did in order
\* and the output file it left.
CliOutcome(exit, message, log, output) ==
    [exit |-> exit, message |-> message, log |-> log, output |-> output]

\* The rest of the try block once manager.transfer was called: r is what the
\* call did; save_image writes the result to output_path.
SaveResult(r, output_path) ==
    IF r.error # "none"
    THEN CliOutcome(1, TransferMessage(r.error),
                    << "load source", "load reference", "discover", "transfer" >>,
                    NoArray)
    ELSE IF ~ImwriteSucceeds(output_path)
    THEN CliOutcome(1, SaveMessage,
                    << "load source", "load reference", "discover", "transfer",
                       "transfer returned", "save" >>,
                    NoArray)
    ELSE CliOutcome(0, NoMessage,
                    << "load source", "load reference", "discover", "transfer",
                       "transfer returned", "save" >>,
                    r.out)

\* A transfer command that does not check the name against the available
\* algorithms before it calls the manager's transfer.
TransferCommandUnchecked(argv, install, u) ==
    IF ~PathExists(argv.source) \/ ~PathExists(argv.reference)
    THEN CliOutcome(2, UsageMessage, << >>, NoArray)
    ELSE LET source_img    == CliImread(argv.source)
             reference_img == CliImread(argv.reference)
         IN  IF source_img = NoArray
             THEN CliOutcome(1, LoadMessage, << "load source" >>, NoArray)
             ELSE IF reference_img = NoArray
             THEN CliOutcome(1, LoadMessage, << "load source", "load reference" >>,
                             NoArray)
             ELSE SaveResult(AlgorithmTransfer(source_img, reference_img, FALSE, u),
                             argv.output)

\* The transfer command on a command line, in an installation.  An exception
\* inside the try block becomes click.ClickException(str(e)): exit status 1
\* with the same message.
TransferCommand(argv, install, u) ==
    IF ~PathExists(argv.source) \/ ~PathExists(argv.reference)
    THEN CliOutcome(2, UsageMessage, << >>, NoArray)
    ELSE LET source_img    == CliImread(argv.source)
             reference_img == CliImread(argv.reference)
             available     == DiscoverAlgorithms(install)
         IN  IF source_img = NoArray
             THEN CliOutcome(1, LoadMessage, << "load source" >>, NoArray)
             ELSE IF reference_img = NoArray
             THEN CliOutcome(1, LoadMessage, << "load source", "load reference" >>,
                             NoArray)
             ELSE IF argv.algorithm \notin available
             THEN CliOutcome(1, NotAvailableMessage(argv.algorithm, available),
                             << "load source", "load reference", "discover" >>,
                             NoArray)
             ELSE SaveResult(AlgorithmTransfer(source_img, reference_img, FALSE, u),
                             argv.output)

(***************************************************************************)
(* work/pylutek.py: ProcessingConfig, process_video and cli.  A path is    *)
(* modelled by its stem and its suffix.                                    *)
(***************************************************************************)
FilePath(stem, suffix) == [stem |-> stem, suffix |-> suffix]

\* None, as an argument and as a field.
ArgNone == [stem |-> "", suffix |-> ""]

\* bool(v) of an argument or a field: None is falsy, a path is truthy.
Truthy(v) == v # ArgNone

\* str(path)
PathText(path) == path.stem \o path.suffix

\* path.with_stem(stem)
WithStem(path, stem) == [path EXCEPT !.stem = stem]

\* The image paths a call may name, and the lists of them it may be given:
\* any number of paths up to MaxPairs pairs, odd numbers included.
ToolImagePaths == {"sunset", "meadow", "missing"}

ToolImageLists ==
    { list \in UNION {[1 .. n -> ToolImagePaths] : n \in 0 .. 2 * MaxPairs} :
        \A i \in 1 .. Len(list) :
            IF i % 2 = 1 THEN list[i] \in SourcePaths ELSE list[i] \in TargetPaths }

\* The arguments of cli.
ToolArgvs ==
    [ image_pairs  : ToolImageLists,
      input_video  : {ArgNone, FilePath("clip", ".mp4")},
      output_video : {ArgNone, FilePath("graded", ".mp4")},
      lut_path     : {ArgNone, FilePath("look", ".cube")} ]

NoToolArgv ==
    [ image_pairs |-> << >>, input_video |-> ArgNone, output_video |-> ArgNone,
      lut_path |-> ArgNone ]

\* list(zip(image_pairs[::2], image_pairs[1::2]))
ZipPairs(image_pairs) ==
    [i \in 1 .. (Len(image_pairs) \div 2) |->
        << image_pairs[2 * i - 1], image_pairs[2 * i] >>]

\* set_default_output(v, info): the validator of output_video.  data holds
\* the fields validated before this one.
set_default_output(v, data) ==
    IF ~Truthy(v) /\ "input_video" \in DOMAIN data /\ Truthy(data.input_video)
    THEN LET input_path == data.input_video
             lut_path   == IF "lut_path" \in DOMAIN data THEN data.lut_path ELSE ArgNone
         IN  IF Truthy(lut_path)
             THEN WithStem(input_path, input_path.stem \o "--" \o lut_path.stem)
             ELSE WithStem(input_path, input_path.stem \o "_matched")
    ELSE v

\* set_default_lut(v, info): the validator of lut_path.
set_default_lut(v, data) ==
    IF /\ ~Truthy(v)
       /\ "source_target_pairs" \in DOMAIN data
       /\ Len(data.source_target_pairs) > 0
    THEN LET first == data.source_target_pairs[1]
         IN  FilePath(first[1] \o "--" \o first[2], ".cube")
    ELSE v

\* ProcessingConfig(source_target_pairs=..., input_video=..., output_video=...,
\* lut_path=...): the fields are validated in the order the class declares
\* them, each validator seeing the fields validated before it.
ProcessingConfig(pairs, input_video, output_video, lut_path) ==
    LET data1 == [source_target_pairs |-> pairs]
        data2 == [source_target_pairs |-> pairs, input_video |-> input_video]
        out   == set_default_output(output_video, data2)
        data3 == [ source_target_pairs |-> pairs, input_video |-> input_video,
                   output_video |-> out ]
        lut   == set_default_lut(lut_path, data3)
    IN  [ source_target_pairs |-> data1.source_target_pairs,
          input_video |-> input_video,
          output_video |-> out,
          lut_path |-> lut ]

NoToolConfig ==
    [ source_target_pairs |-> << >>, input_video |-> ArgNone,
      output_video |-> ArgNone, lut_path |-> ArgNone ]

\* The ffmpeg run of process_video: its input, its lut3d file and its output.
VideoRun(config) ==
    [ started |-> TRUE,
      input   |-> PathText(config.input_video),
      lut     |-> PathText(config.lut_path),
      output  |-> PathText(config.output_video) ]

NoVideoRun == [started |-> FALSE, input |-> "", lut |-> "", output |-> ""]

(***************************************************************************)
(* huehoppy/core/manager.py: discovery over a directory of several         *)
(* candidates.  The registry is a dict: its keys are held in the order     *)
(* they were inserted.                                                     *)
(***************************************************************************)
\* The candidate directories under algorithms/: the repository's package and
\* two more, in alphabetical order.
AlphabeticalOrder == << "histogram", "reinhard", "wavelet" >>

CandidateNames == {AlphabeticalOrder[i] : i \in 1 .. Len(AlphabeticalOrder)}

\* name_a < name_b as Python compares strings.
NameLess(name_a, name_b) ==
    \E i, j \in 1 .. Len(AlphabeticalOrder) :
        AlphabeticalOrder[i] = name_a /\ AlphabeticalOrder[j] = name_b /\ i < j

\* What each candidate directory holds when the manager is built.
CandidateInstalls == [CandidateNames -> PackageStates]

\* The orders in which algorithms_dir.iterdir() may list the candidates.
DirectoryListings ==
    { items \in [1 .. Cardinality(CandidateNames) -> CandidateNames] :
        \A i, j \in DOMAIN items : i # j => items[i] # items[j] }

\* The manager before discovery: an empty registry; error is the exception
\* that left the constructor, "none" when none did.
NewManager == [algorithms |-> << >>, error |-> "none"]

\* A _load_algorithm without its try/except: the exception of a failed import
\* leaves the constructor.
LoadAlgorithmUncaught(manager, algorithm_name, package) ==
    IF package = "broken" THEN [manager EXCEPT !.error = "ImportError"]
    ELSE IF package = "ready"
    THEN [manager EXCEPT !.algorithms = Append(@, algorithm_name)]
    ELSE manager

\* _load_algorithm(algorithm_name) on a package: an import that raises is
\* caught and logged, a module without an algorithm class and a class whose
\* is_available() is false return early; otherwise the class is registered
\* under the directory's name.
LoadAlgorithm(manager, algorithm_name, package) ==
    IF package = "broken" THEN manager
    ELSE IF package = "classless" THEN manager
    ELSE IF package = "unavailable" THEN manager
    ELSE [manager EXCEPT !.algorithms = Append(@, algorithm_name)]

RECURSIVE DiscoverItems(_, _, _, _)
\* The loop of _discover_algorithms from item i on: only a directory with an
\* __init__.py is loaded; an exception leaving _load_algorithm ends the loop.
DiscoverItems(manager, install, items, i) ==
    IF i > Len(items) \/ manager.error # "none" THEN manager
    ELSE LET item == items[i]
             next == IF install[item] = "absent" THEN manager
                     ELSE LoadAlgorithm(manager, item, install[item])
         IN  DiscoverItems(next, install, items, i + 1)

\* HueHoppyManager(): the empty registry, then discovery.
HueHoppyManager(install, items) == DiscoverItems(NewManager, install, items, 1)

\* get_available_algorithms(): sorted(self._algorithms.keys())
GetAvailableAlgorithmsOf(manager) == SortSeq(manager.algorithms, NameLess)

(***************************************************************************)
(* State.                                                                  *)
(***************************************************************************)
VARIABLES
    config_pairs,     \* ProcessingConfig.source_target_pairs
    config_lut_path,  \* ProcessingConfig.lut_path
    nan_cast,         \* what the build's cast of NaN to uint8 yields
    lut_pc,           \* create_multi_lut: "start", "returned" or "raised"
    lut_error,        \* the message of the ImageProcessingError raised
    raw_grid,         \* final_grid before the clip, when the run got that far
    final_grid,       \* final_grid after the clip
    lut_file,         \* the LUT file on disk
    lut_trace,        \* per pair read, what the run computed from it
    tr_source,        \* Algorithm.transfer: the argument source
    tr_reference,     \* the argument reference
    tr_preserve,      \* the argument preserve_luminance
    tr_pc,            \* "start" or "returned"
    tr_stats,         \* the statistics computed, source_std floored
    tr_result_lab,    \* result_lab after the loop, before the clip
    tr_clipped,       \* result_lab after np.clip
    tr_result,        \* the image returned
    steps,            \* Pipeline._steps
    add_error,        \* the exception of the latest add_step, or "none"
    add_arg,          \* the argument of the latest add_step
    p_last,           \* the latest method called on the pipeline
    attr_error,       \* the exception of the latest call of a method by name
    p_save,           \* the keyword save_intermediate of the latest process
    p_pc,             \* the latest Pipeline.process: "none", "returned", "raised"
    p_error,          \* the exception it raised
    p_source,         \* its argument source_image
    p_target,         \* its argument target_image
    p_steps,          \* the steps the pipeline held when it was called
    p_calls,          \* the transfer calls it made, in order
    p_result,         \* the image it returned
    m_algorithms,     \* HueHoppyManager._algorithms: the names registered
    m_before,         \* _algorithms when the latest manager call began
    m_pc,             \* the latest manager call: "none", "returned", "raised"
    m_call,           \* the method called
    m_name,           \* its argument name / algorithm_name
    m_args,           \* the images and keyword of a transfer call
    m_arrays,         \* the caller's two arrays as the call left them
    m_instantiated,   \* whether the call created an algorithm instance
    m_called,         \* whether the call ran an algorithm's transfer
    m_error,          \* the exception it raised
    m_result,         \* what it returned
    cli_argv,         \* huehoppy transfer: the command line
    cli_install,      \* the installation the command runs in
    cli_pc,           \* "start" or "exited"
    cli_exit,         \* the exit status
    cli_message,      \* the error message printed, or "none"
    cli_log,          \* what the command did, in order
    cli_output,       \* the output image file
    tool_argv,        \* pylutek cli: the arguments
    tool_pc,          \* "start", "lut", "returned" or "raised"
    tool_config,      \* ProcessingConfig.input_video and output_video
    tool_error,       \* the exception the call raised
    tool_video,       \* the ffmpeg run process_video started
    d_install,        \* discovery: what each candidate directory holds
    d_items,          \* the order in which iterdir lists the candidates
    d_pc,             \* "start", "built", "listed" or "raised"
    d_manager,        \* the manager HueHoppyManager() built
    d_names           \* what get_available_algorithms returned

lutVars ==
    << config_pairs, config_lut_path, nan_cast, lut_pc, lut_error, raw_grid,
       final_grid, lut_file, lut_trace >>

transferVars ==
    << tr_source, tr_reference, tr_preserve, tr_pc, tr_stats, tr_result_lab,
       tr_clipped, tr_result >>

pipelineVars ==
    << steps, add_error, add_arg, p_last, attr_error, p_save, p_pc, p_error,
       p_source, p_target, p_steps, p_calls, p_result >>

managerVars ==
    << m_algorithms, m_before, m_pc, m_call, m_name, m_args, m_arrays, m_instantiated,
       m_called, m_error, m_result >>

cliVars ==
    << cli_argv, cli_install, cli_pc, cli_exit, cli_message, cli_log, cli_output >>

toolVars == << tool_argv, tool_pc, tool_config, tool_error, tool_video >>

discoveryVars == << d_install, d_items, d_pc, d_manager, d_names >>

vars ==
    << lutVars, transferVars, pipelineVars, managerVars, cliVars, toolVars,
       discoveryVars >>

NoStats == << >>

\* No create_multi_lut call is under way.
LutIdle ==
    /\ config_pairs = << >>
    /\ config_lut_path = NoPath
    /\ lut_pc = "idle"
    /\ lut_error = "none"
    /\ raw_grid = NoGrid
    /\ final_grid = NoGrid
    /\ lut_file = NoFile
    /\ lut_trace = << >>

\* No transfer call is under way.
TransferIdle ==
    /\ tr_source = << >>
    /\ tr_reference = << >>
    /\ tr_preserve = FALSE
    /\ tr_pc = "idle"
    /\ tr_stats = NoStats
    /\ tr_result_lab = << >>
    /\ tr_clipped = << >>
    /\ tr_result = << >>

\* A new pipeline, never run.
PipelineNew ==
    /\ steps = << >>
    /\ add_error = "none"
    /\ add_arg = NoAlgorithm
    /\ p_last = "none"
    /\ attr_error = "none"
    /\ p_save = FALSE
    /\ p_pc = "none"
    /\ p_error = "none"
    /\ p_source = NoImage
    /\ p_target = NoImage
    /\ p_steps = << >>
    /\ p_calls = << >>
    /\ p_result = NoImage

\* No manager exists.
ManagerIdle ==
    /\ m_algorithms = {}
    /\ m_before = {}
    /\ m_pc = "none"
    /\ m_call = "none"
    /\ m_name = "none"
    /\ m_args = NoArgs
    /\ m_arrays = NoArrays
    /\ m_instantiated = FALSE
    /\ m_called = FALSE
    /\ m_error = "none"
    /\ m_result = NoResult

\* No huehoppy command is running.
CliIdle ==
    /\ cli_argv = NoArgv
    /\ cli_install = NoInstall
    /\ cli_pc = "idle"
    /\ cli_exit = 0
    /\ cli_message = NoMessage
    /\ cli_log = << >>
    /\ cli_output = NoArray

\* No pylutek call is running.
ToolIdle ==
    /\ tool_argv = NoToolArgv
    /\ tool_pc = "idle"
    /\ tool_config = NoToolConfig
    /\ tool_error = "none"
    /\ tool_video = NoVideoRun

\* No manager is being built from a directory of candidates.
DiscoveryIdle ==
    /\ d_install = << >>
    /\ d_items = << >>
    /\ d_pc = "idle"
    /\ d_manager = NewManager
    /\ d_names = << >>

InitLut ==
    /\ config_pairs \in PairLists
    /\ config_lut_path \in LutPaths
    /\ nan_cast \in NanCasts
    /\ lut_pc = "start"
    /\ lut_error = "none"
    /\ raw_grid = NoGrid
    /\ final_grid = NoGrid
    /\ lut_file = NoFile
    /\ lut_trace = << >>
    /\ TransferIdle
    /\ PipelineNew
    /\ ManagerIdle
    /\ CliIdle
    /\ ToolIdle
    /\ DiscoveryIdle

\* A create_multi_lut that opens the LUT file for writing before it reads
\* the pairs: a failure on a pair leaves the file created and empty.
CreateMultiLutOpeningFirst ==
    /\ lut_pc = "start"
    /\ LET pairs == config_pairs
           multi == Len(pairs) # 1
           bad   == FirstUnreadable(pairs)
           read  == IF bad = 0 THEN Len(pairs) ELSE IF multi THEN bad - 1 ELSE 0
       IN  /\ lut_trace' = PairTraces(pairs, read, nan_cast)
           /\ IF config_lut_path = NoPath
              THEN /\ lut_pc' = "raised"
                   /\ lut_error' = "Failed to create LUT: LUT path is not set"
                   /\ UNCHANGED << raw_grid, final_grid, lut_file >>
              ELSE IF bad # 0
              THEN /\ lut_pc' = "raised"
                   /\ lut_error' = "Failed to create LUT: Could not read image"
                   /\ lut_file' = [exists |-> TRUE, size |-> LutSize, lines |-> << >>]
                   /\ UNCHANGED << raw_grid, final_grid >>
              ELSE /\ raw_grid' = GridOfTraces(lut_trace')
                   /\ final_grid' = ClipGrid(raw_grid')
                   /\ lut_pc' = "returned"
                   /\ lut_file' = LutFileOf(final_grid')
                   /\ UNCHANGED lut_error
    /\ UNCHANGED << config_pairs, config_lut_path, nan_cast >>
    /\ UNCHANGED << transferVars, pipelineVars, managerVars, cliVars, toolVars, discoveryVars >>

\* create_multi_lut(config): the whole call.  Any exception inside the try
\* block is re-raised as ImageProcessingError("Failed to create LUT: ...").
CreateMultiLut ==
    /\ lut_pc = "start"
    /\ LET pairs == config_pairs
           multi == Len(pairs) # 1
           bad   == FirstUnreadable(pairs)
           read  == IF bad = 0 THEN Len(pairs) ELSE IF multi THEN bad - 1 ELSE 0
       IN  /\ lut_trace' = PairTraces(pairs, read, nan_cast)
           /\ IF bad # 0
              THEN \* read_image raised on pair `bad`
                   /\ lut_pc' = "raised"
                   /\ lut_error' = "Failed to create LUT: Could not read image"
                   /\ UNCHANGED << raw_grid, final_grid, lut_file >>
              ELSE /\ raw_grid' = GridOfTraces(lut_trace')
                   /\ final_grid' = ClipGrid(raw_grid')
                   /\ IF config_lut_path = NoPath
                      THEN /\ lut_pc' = "raised"
                           /\ lut_error' = "Failed to create LUT: LUT path is not set"
                           /\ UNCHANGED lut_file
                      ELSE /\ lut_pc' = "returned"
                           /\ lut_file' = LutFileOf(final_grid')
                           /\ UNCHANGED lut_error
    /\ UNCHANGED << config_pairs, config_lut_path, nan_cast >>
    /\ UNCHANGED << transferVars, pipelineVars, managerVars, cliVars, toolVars, discoveryVars >>

NextLut == CreateMultiLut

SpecLut == InitLut /\ [][NextLut]_vars

InitTransfer ==
    /\ tr_source \in TransferImages
    /\ tr_reference \in TransferImages
    /\ tr_preserve \in BOOLEAN
    /\ tr_pc = "start"
    /\ tr_stats = NoStats
    /\ tr_result_lab = << >>
    /\ tr_clipped = << >>
    /\ tr_result = << >>
    /\ nan_cast \in NanCasts
    /\ LutIdle
    /\ PipelineNew
    /\ ManagerIdle
    /\ CliIdle
    /\ ToolIdle
    /\ DiscoveryIdle

\* Algorithm.transfer(source, reference, preserve_luminance): the whole call.
Transfer ==
    /\ tr_pc = "start"
    /\ LET source_lab    == ImageBGR2LAB(tr_source)
           reference_lab == ImageBGR2LAB(tr_reference)
           st            == TransferStats(source_lab, reference_lab)
           result_lab    == ResultLab(source_lab, st, tr_preserve)
       IN  /\ tr_stats' = st
           /\ tr_result_lab' = result_lab
           /\ tr_clipped' = ClipLabImage(result_lab)
           /\ tr_result' = LabImageToBGR(tr_clipped', nan_cast)
    /\ tr_pc' = "returned"
    /\ UNCHANGED << tr_source, tr_reference, tr_preserve >>
    /\ UNCHANGED << lutVars, pipelineVars, managerVars, cliVars, toolVars, discoveryVars >>

NextTransfer == Transfer

SpecTransfer == InitTransfer /\ [][NextTransfer]_vars

\* Pipeline(): no steps.
InitPipeline ==
    /\ PipelineNew
    /\ nan_cast = 0
    /\ LutIdle
    /\ TransferIdle
    /\ ManagerIdle
    /\ CliIdle
    /\ ToolIdle
    /\ DiscoveryIdle

\* Pipeline.add_step(algorithm)
AddStep(algorithm) ==
    /\ Len(steps) < MaxSteps
    /\ IF IsPipelineAlgorithm(algorithm)
       THEN /\ steps' = Append(steps, algorithm)
            /\ add_error' = "none"
       ELSE /\ add_error' = "TypeError"
            /\ UNCHANGED steps
    /\ add_arg' = algorithm
    /\ p_last' = "add_step"
    /\ UNCHANGED << attr_error, p_save >>
    /\ UNCHANGED << p_pc, p_error, p_source, p_target, p_steps, p_calls, p_result >>
    /\ UNCHANGED << lutVars, transferVars, managerVars, cliVars, toolVars, discoveryVars >>

\* A process without the check for an empty pipeline: with no steps the loop
\* body never runs and the copy of the target is returned.
ProcessWithoutEmptyCheck(source_image, target_image, save_intermediate) ==
    /\ p_source' = source_image
    /\ p_target' = target_image
    /\ p_steps' = steps
    /\ p_save' = save_intermediate
    /\ p_last' = "process"
    /\ IF save_intermediate
       THEN /\ p_pc' = "raised"
            /\ p_error' = "TypeError"
            /\ p_calls' = << >>
            /\ p_result' = NoImage
       ELSE IF ~source_image.array \/ ~target_image.array
       THEN /\ p_pc' = "raised"
            /\ p_error' = "TypeError"
            /\ p_calls' = << >>
            /\ p_result' = NoImage
       ELSE LET calls == RunSteps(steps, source_image, target_image, 1)
            IN  /\ p_calls' = calls
                /\ IF calls # << >> /\ calls[Len(calls)].error # "none"
                   THEN /\ p_pc' = "raised"
                        /\ p_error' = calls[Len(calls)].error
                        /\ p_result' = NoImage
                   ELSE /\ p_pc' = "returned"
                        /\ p_error' = "none"
                        /\ p_result' = IF calls = << >> THEN target_image
                                       ELSE calls[Len(calls)].out
    /\ UNCHANGED << steps, add_error, add_arg, attr_error >>
    /\ UNCHANGED << lutVars, transferVars, managerVars, cliVars, toolVars, discoveryVars >>

\* Pipeline.process(source_image, target_image): the whole call.
\* current_target_image starts as target_image.copy(), an equal array.
\* process has no parameter save_intermediate: a call that passes the
\* keyword raises TypeError when its arguments are bound, before the body.
Process(source_image, target_image, save_intermediate) ==
    /\ p_source' = source_image
    /\ p_target' = target_image
    /\ p_steps' = steps
    /\ p_save' = save_intermediate
    /\ p_last' = "process"
    /\ IF save_intermediate
       THEN /\ p_pc' = "raised"
            /\ p_error' = "TypeError"
            /\ p_calls' = << >>
            /\ p_result' = NoImage
       ELSE IF Len(steps) = 0
       THEN /\ p_pc' = "raised"
            /\ p_error' = "ValueError"
            /\ p_calls' = << >>
            /\ p_result' = NoImage
       ELSE IF ~source_image.array \/ ~target_image.array
       THEN /\ p_pc' = "raised"
            /\ p_error' = "TypeError"
            /\ p_calls' = << >>
            /\ p_result' = NoImage
       ELSE LET calls == RunSteps(steps, source_image, target_image, 1)
                last  == calls[Len(calls)]
            IN  /\ p_calls' = calls
                /\ IF last.error # "none"
                   THEN /\ p_pc' = "raised"
                        /\ p_error' = last.error
                        /\ p_result' = NoImage
                   ELSE /\ p_pc' = "returned"
                        /\ p_error' = "none"
                        /\ p_result' = last.out
    /\ UNCHANGED << steps, add_error, add_arg, attr_error >>
    /\ UNCHANGED << lutVars, transferVars, managerVars, cliVars, toolVars, discoveryVars >>

\* The methods class Pipeline defines.
PipelineMethods == {"add_step", "process", "__len__", "__str__"}

\* pipeline.clear(): the class defines no such method, the attribute lookup
\* raises AttributeError and nothing of the pipeline changes.
Clear ==
    /\ p_last' = "clear"
    /\ IF "clear" \in PipelineMethods
       THEN /\ attr_error' = "none"
            /\ steps' = << >>
       ELSE /\ attr_error' = "AttributeError"
            /\ UNCHANGED steps
    /\ UNCHANGED << add_error, add_arg, p_save, p_pc, p_error, p_source,
                    p_target, p_steps, p_calls, p_result >>
    /\ UNCHANGED << lutVars, transferVars, managerVars, cliVars, toolVars, discoveryVars >>

\* pipeline.get_intermediate_results(): no such method either.
GetIntermediateResults ==
    /\ p_last' = "get_intermediate_results"
    /\ attr_error' = IF "get_intermediate_results" \in PipelineMethods
                     THEN "none"
                     ELSE "AttributeError"
    /\ UNCHANGED << steps, add_error, add_arg, p_save, p_pc, p_error, p_source,
                    p_target, p_steps, p_calls, p_result >>
    /\ UNCHANGED << lutVars, transferVars, managerVars, cliVars, toolVars, discoveryVars >>

\* len(pipeline)
PipelineLen == Len(steps)

NextPipeline ==
    \/ \E algorithm \in StepCandidates : AddStep(algorithm)
    \/ \E source_image, target_image \in PipelineInputs :
          \E save_intermediate \in BOOLEAN :
              Process(source_image, target_image, save_intermediate)
    \/ Clear
    \/ GetIntermediateResults

SpecPipeline == InitPipeline /\ [][NextPipeline]_vars

\* HueHoppyManager(): the registry holds what discovery found.
InitManager ==
    /\ \E install \in Installs : m_algorithms = DiscoverAlgorithms(install)
    /\ m_before = m_algorithms
    /\ m_pc = "none"
    /\ m_call = "none"
    /\ m_name = "none"
    /\ m_args = NoArgs
    /\ m_arrays = NoArrays
    /\ m_instantiated = FALSE
    /\ m_called = FALSE
    /\ m_error = "none"
    /\ m_result = NoResult
    /\ nan_cast \in NanCasts
    /\ LutIdle
    /\ TransferIdle
    /\ PipelineNew
    /\ CliIdle
    /\ ToolIdle
    /\ DiscoveryIdle

\* A get_algorithm that answers an unknown name with an instance of the
\* default algorithm.
GetAlgorithmOrDefault(name) ==
    /\ m_call' = "get_algorithm"
    /\ m_name' = name
    /\ m_args' = NoArgs
    /\ m_arrays' = NoArrays
    /\ m_before' = m_algorithms
    /\ m_called' = FALSE
    /\ m_pc' = "returned"
    /\ m_error' = "none"
    /\ m_instantiated' = TRUE
    /\ m_result' = ReturnedInstance(AlgorithmInstance)
    /\ UNCHANGED m_algorithms
    /\ UNCHANGED << lutVars, transferVars, pipelineVars, cliVars, toolVars, discoveryVars >>

\* HueHoppyManager.get_algorithm(name)
GetAlgorithm(name) ==
    /\ m_call' = "get_algorithm"
    /\ m_name' = name
    /\ m_args' = NoArgs
    /\ m_arrays' = NoArrays
    /\ m_before' = m_algorithms
    /\ m_called' = FALSE
    /\ IF name \notin m_algorithms
       THEN /\ m_pc' = "raised"
            /\ m_error' = "AlgorithmError"
            /\ m_instantiated' = FALSE
            /\ m_result' = NoResult
       ELSE /\ m_pc' = "returned"
            /\ m_error' = "none"
            /\ m_instantiated' = TRUE
            /\ m_result' = ReturnedInstance(AlgorithmInstance)
    /\ UNCHANGED m_algorithms
    /\ UNCHANGED << lutVars, transferVars, pipelineVars, cliVars, toolVars, discoveryVars >>

\* HueHoppyManager.get_algorithm_metadata(name)
GetAlgorithmMetadata(name) ==
    /\ m_call' = "get_algorithm_metadata"
    /\ m_name' = name
    /\ m_args' = NoArgs
    /\ m_arrays' = NoArrays
    /\ m_before' = m_algorithms
    /\ m_called' = FALSE
    /\ m_instantiated' = FALSE
    /\ m_pc' = "returned"
    /\ m_error' = "none"
    /\ m_result' = IF name \notin m_algorithms
                   THEN ReturnedNone
                   ELSE ReturnedMetadata(AlgorithmMetadata)
    /\ UNCHANGED m_algorithms
    /\ UNCHANGED << lutVars, transferVars, pipelineVars, cliVars, toolVars, discoveryVars >>

\* A manager that keeps one algorithm instance which remembers the reference
\* of the transfer before: a transfer that follows another uses that
\* reference's statistics.
ManagerTransferRemembering(algorithm_name, source, reference, preserve_luminance) ==
    /\ m_call' = "transfer"
    /\ m_name' = algorithm_name
    /\ m_args' = [ source |-> source, reference |-> reference,
                   preserve_luminance |-> preserve_luminance ]
    /\ m_arrays' = ArraysAfterTransfer(source, reference)
    /\ m_before' = m_algorithms
    /\ IF algorithm_name \notin m_algorithms
       THEN /\ m_pc' = "raised"
            /\ m_error' = "AlgorithmError"
            /\ m_instantiated' = FALSE
            /\ m_called' = FALSE
            /\ m_result' = NoResult
       ELSE LET remembered == IF m_call = "transfer" THEN m_args.reference ELSE reference
                r == AlgorithmTransfer(source, remembered, preserve_luminance, nan_cast)
            IN  /\ m_instantiated' = TRUE
                /\ m_called' = TRUE
                /\ m_error' = r.error
                /\ IF r.error # "none"
                   THEN /\ m_pc' = "raised"
                        /\ m_result' = NoResult
                   ELSE /\ m_pc' = "returned"
                        /\ m_result' = ReturnedArray(r.out)
    /\ UNCHANGED m_algorithms
    /\ UNCHANGED << lutVars, transferVars, pipelineVars, cliVars, toolVars, discoveryVars >>

\* HueHoppyManager.transfer(algorithm_name, source, reference,
\* preserve_luminance=...): get_algorithm, then the instance's transfer; the
\* exceptions of both pass through.
ManagerTransfer(algorithm_name, source, reference, preserve_luminance) ==
    /\ m_call' = "transfer"
    /\ m_name' = algorithm_name
    /\ m_args' = [ source |-> source, reference |-> reference,
                   preserve_luminance |-> preserve_luminance ]
    /\ m_arrays' = ArraysAfterTransfer(source, reference)
    /\ m_before' = m_algorithms
    /\ IF algorithm_name \notin m_algorithms
       THEN /\ m_pc' = "raised"
            /\ m_error' = "AlgorithmError"
            /\ m_instantiated' = FALSE
            /\ m_called' = FALSE
            /\ m_result' = NoResult
       ELSE LET r == AlgorithmTransfer(source, reference, preserve_luminance, nan_cast)
            IN  /\ m_instantiated' = TRUE
                /\ m_called' = TRUE
                /\ m_error' = r.error
                /\ IF r.error # "none"
                   THEN /\ m_pc' = "raised"
                        /\ m_result' = NoResult
                   ELSE /\ m_pc' = "returned"
                        /\ m_result' = ReturnedArray(r.out)
    /\ UNCHANGED m_algorithms
    /\ UNCHANGED << lutVars, transferVars, pipelineVars, cliVars, toolVars, discoveryVars >>

\* pipeline.add_step(manager.get_algorithm(name)): add_step with the instance
\* the latest get_algorithm returned.
AddManagerStep ==
    /\ m_call = "get_algorithm"
    /\ m_pc = "returned"
    /\ AddStep(m_result.instance)

NextManager ==
    \/ \E name \in AlgorithmNames : GetAlgorithm(name)
    \/ \E name \in AlgorithmNames : GetAlgorithmMetadata(name)
    \/ \E algorithm_name \in AlgorithmNames, source, reference \in ManagerImages :
          \E preserve_luminance \in BOOLEAN :
              ManagerTransfer(algorithm_name, source, reference, preserve_luminance)
    \/ AddManagerStep

SpecManager == InitManager /\ [][NextManager]_vars

\* `huehoppy transfer ...` is started; the output file does not exist.
InitCli ==
    /\ cli_argv \in CliArgvs
    /\ cli_install \in Installs
    /\ cli_pc = "start"
    /\ cli_exit = 0
    /\ cli_message = NoMessage
    /\ cli_log = << >>
    /\ cli_output = NoArray
    /\ nan_cast \in NanCasts
    /\ LutIdle
    /\ TransferIdle
    /\ PipelineNew
    /\ ManagerIdle
    /\ ToolIdle
    /\ DiscoveryIdle

\* The transfer command runs to its exit.
CliTransfer ==
    /\ cli_pc = "start"
    /\ \E outcome \in {TransferCommand(cli_argv, cli_install, nan_cast)} :
          /\ cli_exit' = outcome.exit
          /\ cli_message' = outcome.message
          /\ cli_log' = outcome.log
          /\ cli_output' = outcome.output
    /\ cli_pc' = "exited"
    /\ UNCHANGED << cli_argv, cli_install >>
    /\ UNCHANGED << lutVars, transferVars, pipelineVars, managerVars, toolVars, discoveryVars >>

NextCli == CliTransfer

SpecCli == InitCli /\ [][NextCli]_vars

\* cli(*image_pairs, input_video=..., output_video=..., lut_path=...) is
\* called; no LUT file exists.
InitTool ==
    /\ tool_argv \in ToolArgvs
    /\ tool_pc = "start"
    /\ tool_config = NoToolConfig
    /\ tool_error = "none"
    /\ tool_video = NoVideoRun
    /\ nan_cast \in NanCasts
    /\ LutIdle
    /\ TransferIdle
    /\ PipelineNew
    /\ ManagerIdle
    /\ CliIdle
    /\ DiscoveryIdle

\* cli up to its call of create_multi_lut: the check of the image paths and
\* the construction of the configuration.
CliConfigure ==
    /\ tool_pc = "start"
    /\ IF Len(tool_argv.image_pairs) < 2 \/ Len(tool_argv.image_pairs) % 2 # 0
       THEN /\ tool_pc' = "raised"
            /\ tool_error' = "ValueError"
            /\ UNCHANGED << tool_config, lutVars >>
       ELSE LET config == ProcessingConfig(ZipPairs(tool_argv.image_pairs),
                                           tool_argv.input_video,
                                           tool_argv.output_video,
                                           tool_argv.lut_path)
            IN  /\ tool_config' = config
                /\ config_pairs' = config.source_target_pairs
                /\ config_lut_path' = IF Truthy(config.lut_path)
                                      THEN PathText(config.lut_path)
                                      ELSE NoPath
                /\ lut_pc' = "start"
                /\ tool_pc' = "lut"
                /\ UNCHANGED << tool_error, nan_cast, lut_error, raw_grid, final_grid,
                                lut_file, lut_trace >>
    /\ UNCHANGED << tool_argv, tool_video >>
    /\ UNCHANGED << transferVars, pipelineVars, managerVars, cliVars, discoveryVars >>

\* A cli that starts process_video as soon as the configuration is built,
\* without waiting for create_multi_lut or looking at its outcome.
CliProcessVideoEager ==
    /\ tool_pc = "lut"
    /\ IF ~Truthy(tool_config.input_video)
       THEN /\ tool_pc' = "returned"
            /\ UNCHANGED << tool_error, tool_video >>
       ELSE /\ tool_video' = VideoRun(tool_config)
            /\ \E ffmpeg_ok \in BOOLEAN :
                  IF ffmpeg_ok
                  THEN tool_pc' = "returned" /\ UNCHANGED tool_error
                  ELSE tool_pc' = "raised" /\ tool_error' = "RuntimeError"
    /\ UNCHANGED << tool_argv, tool_config >>
    /\ UNCHANGED << lutVars, transferVars, pipelineVars, managerVars, cliVars, discoveryVars >>

\* cli after create_multi_lut: its exception passes through; when it
\* returned and an input video was given, process_video runs ffmpeg, which
\* succeeds or fails.
CliProcessVideo ==
    /\ tool_pc = "lut"
    /\ lut_pc \in {"returned", "raised"}
    /\ IF lut_pc = "raised"
       THEN /\ tool_pc' = "raised"
            /\ tool_error' = "ImageProcessingError"
            /\ UNCHANGED tool_video
       ELSE IF ~Truthy(tool_config.input_video)
       THEN /\ tool_pc' = "returned"
            /\ UNCHANGED << tool_error, tool_video >>
       ELSE /\ tool_video' = VideoRun(tool_config)
            /\ \E ffmpeg_ok \in BOOLEAN :
                  IF ffmpeg_ok
                  THEN tool_pc' = "returned" /\ UNCHANGED tool_error
                  ELSE tool_pc' = "raised" /\ tool_error' = "RuntimeError"
    /\ UNCHANGED << tool_argv, tool_config >>
    /\ UNCHANGED << lutVars, transferVars, pipelineVars, managerVars, cliVars, discoveryVars >>

NextTool ==
    \/ CliConfigure
    \/ CreateMultiLut
    \/ CliProcessVideo

SpecTool == InitTool /\ [][NextTool]_vars

\* A directory of candidates, listed in some order; no manager is built yet.
InitDiscovery ==
    /\ d_install \in CandidateInstalls
    /\ d_items \in DirectoryListings
    /\ d_pc = "start"
    /\ d_manager = NewManager
    /\ d_names = << >>
    /\ nan_cast = 0
    /\ LutIdle
    /\ TransferIdle
    /\ PipelineNew
    /\ ManagerIdle
    /\ CliIdle
    /\ ToolIdle

\* manager = HueHoppyManager()
Construct ==
    /\ d_pc = "start"
    /\ d_manager' = HueHoppyManager(d_install, d_items)
    /\ d_pc' = IF d_manager'.error = "none" THEN "built" ELSE "raised"
    /\ UNCHANGED << d_install, d_items, d_names >>
    /\ UNCHANGED << lutVars, transferVars, pipelineVars, managerVars, cliVars, toolVars >>

\* manager.get_available_algorithms()
GetAvailableAlgorithms ==
    /\ d_pc = "built"
    /\ d_names' = GetAvailableAlgorithmsOf(d_manager)
    /\ d_pc' = "listed"
    /\ UNCHANGED << d_install, d_items, d_manager >>
    /\ UNCHANGED << lutVars, transferVars, pipelineVars, managerVars, cliVars, toolVars >>

NextDiscovery ==
    \/ Construct
    \/ GetAvailableAlgorithms

SpecDiscovery == InitDiscovery /\ [][NextDiscovery]_vars

(***************************************************************************)
(* Properties.                                                             *)
(***************************************************************************)
\* The run of create_multi_lut is over.
LutDone == lut_pc \in {"returned", "raised"}

\* The run read every pair and computed its grid.
GridComputed == LutDone /\ FirstUnreadable(config_pairs) = 0

\* A finite number in [0, 1].
InUnit(x) == IsFin(x) /\ 0 <= x.n /\ x.n <= x.d

\* Mean and population standard deviation per channel of a Lab image.
ChannelStats(lab_img) == [ mean |-> Mean(lab_img), stddev |-> Std(lab_img) ]

\* (input - inputMean) * (referenceStd / inputStd) + referenceMean, the input
\* standard deviation clamped to the positive floor before it divides.
TransferFormula(input, inputStats, referenceStats, c) ==
    FAdd(FMul(FSub(Num(input), inputStats.mean[c]),
              FDiv(referenceStats.stddev[c], FMax(inputStats.stddev[c], StdFloor))),
         referenceStats.mean[c])

\* C1: in create_multi_lut, for every pair read, every lattice cell and every
\* channel c, the mapped Lab value is
\* (lab[c] - sourceMean[c]) * (targetStd[c] / sourceStd[c]) + targetMean[c],
\* with the statistics of the pair's whole source and target images.
C1_LutCellFollowsFormula ==
    LutDone =>
        \A i \in 1 .. Len(lut_trace) : \A cell \in Cells : \A c \in Channels :
            lut_trace[i].cells[cell].matched[c]
                = TransferFormula(CellLab(cell)[c],
                                  ChannelStats(ImageBGR2LAB(Disk[config_pairs[i][1]])),
                                  ChannelStats(ImageBGR2LAB(Disk[config_pairs[i][2]])), c)

\* C2: no value create_multi_lut divides by (a source standard deviation, the
\* similarity bandwidth 4 * sum(sourceStd^2)) is exactly zero.
C2_NoZeroDivisor ==
    LutDone =>
        \A i \in 1 .. Len(lut_trace) : \A d \in lut_trace[i].divisors : ~IsZero(d)

\* The values one pair's trace holds: ratios, mapped Lab values, similarities.
TraceValues(t) ==
    {t.ratio[c] : c \in Channels}
        \cup UNION {{t.cells[cell].matched[c] : c \in Channels} : cell \in Cells}
        \cup {t.cells[cell].similarity : cell \in Cells}

\* C3: with the single pair (all-black source, all-white target) LUT synthesis
\* completes without error when a LUT path is set, no NaN or Inf appears in
\* the computation, and every grid value is in [0, 1].
C3_BlackToWhiteIsFinite ==
    (LutDone /\ config_pairs = << << "black", "white" >> >>) =>
        /\ config_lut_path # NoPath => lut_pc = "returned"
        /\ \A i \in 1 .. Len(lut_trace) :
              \A x \in TraceValues(lut_trace[i]) : ~IsNonFinite(x)
        /\ \A cell \in Cells : \A c \in Channels : InUnit(final_grid[cell][c])

\* C4: create_multi_lut on an empty list of pairs fails, whether or not a LUT
\* path is set, and writes no LUT file.
C4_EmptyPairListFails ==
    (LutDone /\ Len(config_pairs) = 0) =>
        /\ lut_pc = "raised"
        /\ ~lut_file.exists

\* C5: for a non-empty list of pairs, every component of every cell of the
\* grid produced, and every number written to the LUT file, is in [0, 1].
C5_GridInUnitInterval ==
    (lut_pc = "returned" /\ Len(config_pairs) >= 1) =>
        /\ \A cell \in Cells : \A c \in Channels : InUnit(final_grid[cell][c])
        /\ \A k \in 1 .. Len(lut_file.lines) : \A c \in Channels :
              /\ ~lut_file.lines[k][c].nan
              /\ lut_file.lines[k][c].micro \in 0 .. 1000000

\* C6: two pairs with the same source image and different target images get
\* equal similarity weights at every cell, and each cell's colour before the
\* final clip is the mean of the two pairs' mapped colours on the [0, 1]
\* scale of the single-pair output (mapped colour / 255).
C6_EvenBlendOfEqualSources ==
    ( /\ GridComputed
      /\ Len(config_pairs) = 2
      /\ config_pairs[1][1] = config_pairs[2][1]
      /\ config_pairs[1][2] # config_pairs[2][2] ) =>
        \A cell \in Cells :
            /\ lut_trace[1].cells[cell].similarity = lut_trace[2].cells[cell].similarity
            /\ \A c \in Channels :
                  raw_grid[cell][c]
                      = FDiv(FAdd(FDiv(Num(lut_trace[1].cells[cell].rgb[c]), Num(255)),
                                  FDiv(Num(lut_trace[2].cells[cell].rgb[c]), Num(255))),
                             Num(2))

\* The list of pairs in the order a permutation of its indices gives.
Permuted(pairs, perm) == [i \in 1 .. Len(pairs) |-> pairs[perm[i]]]

\* C7: for two or more pairs, the grid (before and after the clip) is the
\* grid the same loop bodies give when accumulated in any other order, and
\* the grid synthesized from the list with its first two pairs swapped.
C7_OrderIndependent ==
    (GridComputed /\ Len(config_pairs) >= 2) =>
        /\ \A perm \in Permutations(1 .. Len(config_pairs)) :
              LET grid == GridOfTraces(Permuted(lut_trace, perm))
              IN  /\ raw_grid = grid
                  /\ final_grid = ClipGrid(grid)
        /\ LET swapped == [i \in 1 .. Len(config_pairs) |->
                             IF i = 1 THEN config_pairs[2]
                             ELSE IF i = 2 THEN config_pairs[1]
                             ELSE config_pairs[i]]
               grid    == RawGrid(swapped, nan_cast)
           IN  /\ raw_grid = grid
               /\ final_grid = ClipGrid(grid)

\* C7's case: a grid synthesized from two different pairs whose mapped
\* colours differ at some cell and whose weights there are not both zero.
C7_Witness ==
    /\ lut_pc = "returned"
    /\ Len(config_pairs) = 2
    /\ config_pairs[1] # config_pairs[2]
    /\ \E cell \in Cells :
          /\ lut_trace[1].cells[cell].rgb # lut_trace[2].cells[cell].rgb
          /\ IsFin(lut_trace[1].cells[cell].similarity)
          /\ IsFin(lut_trace[2].cells[cell].similarity)
          /\ ~IsZero(lut_trace[1].cells[cell].similarity)
          /\ ~IsZero(lut_trace[2].cells[cell].similarity)
          /\ lut_trace[1].cells[cell].similarity # lut_trace[2].cells[cell].similarity

\* The statistical transfer (floored input deviation, clip, conversion back
\* to device space) applied to one lattice cell's colour, divided by 255.
DirectTransferOfCell(cell, pair, u) ==
    LET st  == TransferStats(ImageBGR2LAB(Disk[pair[1]]), ImageBGR2LAB(Disk[pair[2]]))
        out == LabImageToBGR(ClipLabImage(ResultLab(<< CellLab(cell) >>, st, FALSE)), u)
        rgb == Reversed(out[1])
    IN  PerChannel(LAMBDA c : FDiv(Num(rgb[c]), Num(255)))

\* C8: with exactly one pair, each cell of the grid is the statistical
\* transfer applied directly to the cell's colour (source statistics as
\* input, target statistics as reference), converted back and divided by 255.
C8_SinglePairIsDirectTransfer ==
    (GridComputed /\ Len(config_pairs) = 1) =>
        \A cell \in Cells :
            raw_grid[cell] = DirectTransferOfCell(cell, config_pairs[1], nan_cast)

\* C9: with preserve_luminance, channel 0 (lightness) of every pixel of the
\* Lab result, before and after the clip, is the input's lightness and only
\* the two chroma channels are remapped; without it all three channels are
\* remapped by the transfer formula.
C9_PreserveLuminance ==
    tr_pc = "returned" =>
        LET source_lab == ImageBGR2LAB(tr_source)
            reference_lab == ImageBGR2LAB(tr_reference)
        IN  \A i \in 1 .. Len(source_lab) : \A c \in Channels :
                IF tr_preserve /\ c = 1
                THEN /\ tr_result_lab[i][c] = Num(source_lab[i][c])
                     /\ tr_clipped[i][c] = Num(source_lab[i][c])
                ELSE tr_result_lab[i][c]
                        = TransferFormula(source_lab[i][c], ChannelStats(source_lab),
                                          ChannelStats(reference_lab), c)

\* C9's case: a transfer with preserve_luminance whose reference would have
\* changed the lightness of some pixel, and which changed a chroma channel.
C9_Witness ==
    /\ tr_pc = "returned"
    /\ tr_preserve
    /\ \E i \in 1 .. Len(tr_source) :
          LET px == ImageBGR2LAB(tr_source)[i]
          IN  /\ Remap(px[1], tr_stats, 1) # Num(px[1])
              /\ tr_result_lab[i][2] # Num(px[2])

\* C10: when process returns on a pipeline of k >= 1 steps, it called each
\* step's transfer exactly once, in insertion order, always with the original
\* source image; the first call got (a copy of) the initial target, every
\* later call the output of the call before it, and the value returned is the
\* output of the last call.
C10_PipelineChaining ==
    p_pc = "returned" =>
        /\ Len(p_steps) >= 1
        /\ Len(p_calls) = Len(p_steps)
        /\ \A i \in 1 .. Len(p_calls) :
              /\ p_calls[i].algorithm = p_steps[i]
              /\ p_calls[i].source_image = p_source
              /\ p_calls[i].target_image
                    = IF i = 1 THEN p_target ELSE p_calls[i - 1].out
              /\ p_calls[i].error = "none"
        /\ p_result = p_calls[Len(p_calls)].out

\* C10's case: a pipeline of two or more steps with different algorithms has
\* returned, on different source and target images.
C10_Witness ==
    /\ p_pc = "returned"
    /\ Len(p_steps) >= 2
    /\ p_steps[1] # p_steps[2]
    /\ p_source # p_target
    /\ p_result.made_from[2] # p_target

\* C11: every algorithm instance that get_algorithm returns for an available
\* name is accepted by Pipeline.add_step: after add_step is given that
\* instance, no TypeError was raised and the instance is the last step of the
\* pipeline.
C11_ManagerInstanceAccepted ==
    (/\ m_call = "get_algorithm"
     /\ m_pc = "returned"
     /\ p_last = "add_step"
     /\ add_arg = m_result.instance)
        => /\ add_error = "none"
           /\ Len(steps) > 0
           /\ steps[Len(steps)] = add_arg

\* The latest manager call was transfer and it returned an array.
TransferReturned == m_call = "transfer" /\ m_pc = "returned"

\* C12: for every algorithm the manager discovers, transfer(source, target)
\* returns a 3-channel uint8 image whose height and width are those of the
\* second argument, the target.
C12_OutputHasTargetShape ==
    TransferReturned =>
        LET out == m_result.array
        IN  /\ out.ndim = 3
            /\ out.channels = 3
            /\ out.dtype = "uint8"
            /\ out.height = m_args.reference.height
            /\ out.width = m_args.reference.width

C14_UnknownNameFails ==
    m_name \notin m_before =>
        /\ m_call \in {"get_algorithm", "transfer"} =>
               /\ m_pc = "raised"
               /\ m_error = "AlgorithmError"
               /\ m_result = NoResult
        /\ m_call = "get_algorithm_metadata" =>
               /\ m_pc = "returned"
               /\ m_error = "none"
               /\ m_result = ReturnedNone
        /\ m_call # "none" =>
               /\ ~m_instantiated
               /\ ~m_called
               /\ m_algorithms = m_before

\* transfer was asked for an unknown name while another name was registered.
C14_Witness ==
    /\ m_call = "transfer"
    /\ m_name = "nonexistent"
    /\ m_before = {"reinhard"}
    /\ m_args.source \in ManagerImages
    /\ m_pc = "raised"

\* C15: a process call on a pipeline without steps raises (ValueError when
\* the call passes the two images of its signature), no algorithm is called
\* and no image is returned.
C15_EmptyPipelineRaises ==
    (p_pc # "none" /\ Len(p_steps) = 0) =>
        /\ p_pc = "raised"
        /\ p_error # "none"
        /\ ~p_save => p_error = "ValueError"
        /\ p_calls = << >>
        /\ p_result = NoImage

\* process(source, target) was called with two valid images on a pipeline
\* without steps.
C15_Witness ==
    /\ p_pc = "raised"
    /\ Len(p_steps) = 0
    /\ ~p_save
    /\ p_source = Photo("a")
    /\ p_target = Photo("b")
    /\ p_error = "ValueError"

\* C16: a new pipeline has length 0, and through every sequence of add_step
\* and clear calls the length is the number of successful add_step calls
\* since the latest clear: clear leaves length 0, a successful add_step
\* appends what it was given after the steps already held, and no other call
\* changes the steps.
C16_LenCountsAddsSinceClear ==
    /\ PipelineLen = 0
    /\ [][ /\ p_last' = "clear" => (attr_error' = "none" /\ Len(steps') = 0)
           /\ (p_last' = "add_step" /\ add_error' = "none") =>
                  steps' = Append(steps, add_arg')
           /\ (p_last' = "add_step" /\ add_error' # "none") => steps' = steps
           /\ p_last' \notin {"add_step", "clear"} => steps' = steps ]_vars

\* C17: after a pipeline of k >= 1 steps was run on two images with
\* save_intermediate=True, get_intermediate_results() succeeds and holds k+1
\* images: the run returned, it made one transfer call per step, in order,
\* and the call by name raised nothing.
C17_IntermediateResultsKept ==
    (/\ p_last = "get_intermediate_results"
     /\ p_save
     /\ Len(p_steps) >= 1
     /\ p_source = Photo("a")
     /\ p_target = Photo("b"))
        => /\ attr_error = "none"
           /\ p_pc = "returned"
           /\ Len(p_calls) = Len(p_steps)
           /\ \A i \in 1 .. Len(p_calls) : p_calls[i].algorithm = p_steps[i]

\* A value of the file that is a decimal number with six digits after the
\* point (held in millionths), not the text "nan".
IsDecimal6(token) == ~token.nan /\ token.micro \in Nat

\* C18: the LUT file written has the header LUT_3D_SIZE N and exactly N^3
\* data lines, blue outermost, then green, red innermost: the line of cell
\* (r, g, b) is line b*N*N + g*N + r + 1 and holds the cell's red, green and
\* blue output values in that order, each printed as a number with six
\* decimal digits.
C18_LutFileLayout ==
    lut_pc = "returned" =>
        /\ lut_file.exists
        /\ lut_file.size = LutSize
        /\ Len(lut_file.lines) = LutSize * LutSize * LutSize
        /\ \A r, g, b \in 0 .. LutSize - 1 :
               LET line == lut_file.lines[b * LutSize * LutSize + g * LutSize + r + 1]
                   out  == final_grid[<< b, g, r >>]
               IN  \A c \in Channels :
                       /\ IsDecimal6(line[c])
                       /\ line[c] = Format6(out[c])

\* A value read back, v, is within half a millionth of the value written, x.
Within6(v, x) ==
    /\ IsFin(v)
    /\ IsFin(x)
    /\ LET micro == v.n * (1000000 \div v.d)
           q     == ScaledQuotient(x.n, x.d, 6)
           r     == ScaledRemainder(x.n, x.d, 6)
       IN  \/ micro = q /\ 2 * r <= x.d
           \/ micro = q + 1 /\ 2 * (x.d - r) <= x.d

\* C19: reading back the LUT file a run wrote reproduces the grid it was
\* written from (same N, same cell order, every value within the six-digit
\* precision), and reading the file with any other number of data lines
\* fails with MalformedLutFile.
C19_LutRoundTrip ==
    lut_pc = "returned" =>
        /\ LET back == LutFileCodecRead(lut_file)
           IN  /\ back.error = "none"
               /\ back.size = LutSize
               /\ DOMAIN back.grid = Cells
               /\ \A cell \in Cells : \A c \in Channels :
                      Within6(back.grid[cell][c], final_grid[cell][c])
        /\ \A n \in 0 .. Len(lut_file.lines) - 1 :
               LutFileCodecRead([lut_file EXCEPT !.lines = SubSeq(lut_file.lines, 1, n)]).error
                   = "MalformedLutFile"
        /\ LutFileCodecRead([lut_file EXCEPT
                                !.lines = Append(lut_file.lines, lut_file.lines[1])]).error
               = "MalformedLutFile"

\* An array that is not a non-empty image of exactly 3 channels.
BadShape(img) == img.ndim # 3 \/ img.channels # 3 \/ img.height * img.width = 0

\* C20: a transfer whose input or reference does not have exactly 3 channels
\* or is empty fails: the call of a registered algorithm raises and returns
\* no image.
C20_BadShapeFails ==
    (/\ m_call = "transfer"
     /\ m_name \in m_before
     /\ BadShape(m_args.source) \/ BadShape(m_args.reference))
        => /\ m_pc = "raised"
           /\ m_error # "none"
           /\ m_result = NoResult

\* C21: a transfer whose reference is its input (equal statistics) returns
\* the input unchanged in Lab: every channel of every pixel of result_lab,
\* before and after the clip, is the input's value, for uniform images too.
C21_IdentityLaw ==
    (tr_pc = "returned" /\ tr_reference = tr_source) =>
        LET source_lab == ImageBGR2LAB(tr_source)
        IN  /\ Len(tr_result_lab) = Len(source_lab)
            /\ \A i \in 1 .. Len(source_lab) : \A c \in Channels :
                   /\ tr_result_lab[i][c] = Num(source_lab[i][c])
                   /\ tr_clipped[i][c] = Num(source_lab[i][c])

\* The identity case on a uniform image: the source's standard deviation was
\* zero before the floor, in every channel.
C21_Witness ==
    /\ tr_pc = "returned"
    /\ tr_reference = tr_source
    /\ tr_source = << Gray, Gray >>
    /\ \A c \in Channels : tr_stats.reference.std[c] = Num(0)
    /\ tr_result_lab[1] = << Num(128), Num(128), Num(128) >>

\* The identity case on an image with varying colour.
C21_WitnessVarying ==
    /\ tr_pc = "returned"
    /\ tr_reference = tr_source
    /\ \E c \in Channels : tr_stats.reference.std[c] # Num(0)

C23_PairFailureAborts ==
    /\ (LutDone /\ FirstUnreadable(config_pairs) # 0) =>
           /\ lut_pc = "raised"
           /\ lut_error = "Failed to create LUT: Could not read image"
           /\ lut_file = NoFile
           /\ final_grid = NoGrid
    /\ lut_file # NoFile =>
           /\ lut_pc = "returned"
           /\ Len(lut_trace) = Len(config_pairs)
           /\ \A i \in 1 .. Len(config_pairs) :
                  Readable(config_pairs[i][1]) /\ Readable(config_pairs[i][2])

\* The failure came at the second pair, after the first was processed, with a
\* LUT path set.
C23_Witness ==
    /\ lut_pc = "raised"
    /\ config_lut_path # NoPath
    /\ FirstUnreadable(config_pairs) = 2
    /\ Len(lut_trace) = 1
    /\ Readable(config_pairs[2][1])
    /\ lut_file = NoFile

\* Position of the first occurrence of a step in the command's log, 0 if none.
LogIndex(step) ==
    IF \E i \in 1 .. Len(cli_log) : cli_log[i] = step
    THEN CHOOSE i \in 1 .. Len(cli_log) :
             cli_log[i] = step /\ \A j \in 1 .. i - 1 : cli_log[j] # step
    ELSE 0

\* C24: the transfer command given an algorithm name that is not in the
\* manager's available list exits with a non-zero status, calls no algorithm
\* and creates no output file, and once both images were loaded its message is
\* the "not available" message naming the algorithm and the available ones;
\* an output file is written only after the transfer returned successfully.
C24_UnknownAlgorithmRejected ==
    cli_pc = "exited" =>
        /\ cli_argv.algorithm \notin DiscoverAlgorithms(cli_install) =>
               /\ cli_exit # 0
               /\ LogIndex("transfer") = 0
               /\ LogIndex("save") = 0
               /\ cli_output = NoArray
               /\ LogIndex("discover") # 0 =>
                      /\ cli_exit = 1
                      /\ cli_message =
                             NotAvailableMessage(cli_argv.algorithm,
                                                 DiscoverAlgorithms(cli_install))
        /\ cli_output # NoArray =>
               /\ cli_exit = 0
               /\ LogIndex("transfer returned") # 0
               /\ LogIndex("transfer returned") < LogIndex("save")

\* The command was given two images that load, a writable output path and the
\* name of an algorithm the installation does not offer, and was refused after
\* discovery.
C24_Witness ==
    /\ cli_pc = "exited"
    /\ cli_argv.source = "sunset.jpg"
    /\ cli_argv.reference = "meadow.jpg"
    /\ cli_argv.output = "out.jpg"
    /\ cli_argv.algorithm = "nonexistent"
    /\ cli_install.reinhard = "ready"
    /\ LogIndex("discover") = 3
    /\ cli_exit = 1

\* C25: a run on a list of two or more copies of the same pair produces the
\* same grid as a run on that pair alone.
C25_CopiesOfOnePair ==
    ( /\ lut_pc = "returned"
      /\ Len(config_pairs) >= 2
      /\ \A i \in 1 .. Len(config_pairs) : config_pairs[i] = config_pairs[1] ) =>
        final_grid = ClipGrid(RawGrid(<< config_pairs[1] >>, nan_cast))

\* C26: in the multi-pair case the value of every cell before the final clip
\* (accumulated weighted colour over the floor-clamped accumulated weight) is,
\* per component, a number not below the smallest and not above the largest
\* of the pairs' mapped colours of that cell, whatever the weights.
C26_CellWithinMappedColours ==
    (GridComputed /\ Len(config_pairs) >= 2) =>
        \A cell \in Cells : \A c \in Channels :
            LET mapped == {lut_trace[i].cells[cell].rgb[c] : i \in 1 .. Len(lut_trace)}
                value  == raw_grid[cell][c]
            IN  /\ IsFin(value)
                /\ \E lo \in mapped : ~FLess(value, Num(lo))
                /\ \E hi \in mapped : ~FLess(Num(hi), value)

C28_VideoOnlyAfterLut ==
    /\ tool_video.started =>
           /\ Truthy(tool_argv.input_video)
           /\ tool_video.input = PathText(tool_argv.input_video)
           /\ lut_pc = "returned"
           /\ tool_video.lut = config_lut_path
           /\ lut_file.exists
           /\ lut_file = LutFileOf(final_grid)
           /\ Len(lut_file.lines) = LutSize * LutSize * LutSize
    /\ (lut_pc = "raised" \/ tool_error \in {"ValueError", "ImageProcessingError"}) =>
           ~tool_video.started
    /\ (tool_pc = "returned" /\ ~Truthy(tool_argv.input_video)) => ~tool_video.started

\* The call was given two readable pairs and an input video, the LUT was
\* written and ffmpeg was run on the video with it.
C28_Witness ==
    /\ tool_pc = "returned"
    /\ tool_video.started
    /\ Len(config_pairs) = 2
    /\ tool_video.input = "clip.mp4"
    /\ lut_pc = "returned"
    /\ lut_file.exists

\* C29: a configuration built with an input video and no output video gets
\* as output video the input path with the stem "<input stem>--<LUT stem>"
\* when it has a LUT path (given or defaulted from the first pair), and the
\* stem "<input stem>_matched" only when it has no LUT path.
C29_DefaultOutputNamesLut ==
    ( /\ tool_pc \in {"lut", "returned", "raised"}
      /\ tool_config # NoToolConfig
      /\ Truthy(tool_argv.input_video)
      /\ ~Truthy(tool_argv.output_video) ) =>
        LET input_path == tool_config.input_video
            lut_path   == tool_config.lut_path
        IN  tool_config.output_video
                = IF Truthy(lut_path)
                  THEN WithStem(input_path, input_path.stem \o "--" \o lut_path.stem)
                  ELSE WithStem(input_path, input_path.stem \o "_matched")

\* The names the built manager has registered.
RegisteredNames == {d_manager.algorithms[i] : i \in 1 .. Len(d_manager.algorithms)}

\* C30: discovery is failure-isolated.  The constructor never raises; the
\* registry holds exactly the candidates that are packages whose import
\* succeeded, that expose an algorithm class and whose is_available() was
\* true, whatever the other candidates are and in whatever order they are
\* listed; get_available_algorithms returns those names, each once, in
\* ascending order.
C30_DiscoveryIsolated ==
    /\ d_pc # "raised"
    /\ d_manager.error = "none"
    /\ d_pc \in {"built", "listed"} =>
           /\ RegisteredNames = {name \in CandidateNames : d_install[name] = "ready"}
           /\ Len(d_manager.algorithms) = Cardinality(RegisteredNames)
    /\ d_pc = "listed" =>
           /\ Len(d_names) = Cardinality(RegisteredNames)
           /\ \A i \in 1 .. Len(d_names) :
                  /\ d_names[i] \in RegisteredNames
                  /\ d_install[d_names[i]] = "ready"
           /\ \A i, j \in 1 .. Len(d_names) : i < j => NameLess(d_names[i], d_names[j])

\* The directory listed a package whose import fails first, then two ready
\* packages in descending order of their names; both were registered and the
\* names came back sorted.
C30_Witness ==
    /\ d_pc = "listed"
    /\ d_install[d_items[1]] = "broken"
    /\ d_install[d_items[2]] = "ready"
    /\ d_install[d_items[3]] = "ready"
    /\ NameLess(d_items[3], d_items[2])
    /\ d_manager.algorithms = << d_items[2], d_items[3] >>
    /\ d_names = << d_items[3], d_items[2] >>

=============================================================================
